---------------------------- MODULE Spec2Model ----------------------------
(***************************************************************************)
(* Model of the job-search service: the search orchestrator search_jobs,   *)
(* the two retrieval repositories it calls, and the fusion function        *)
(* _merge_and_rank_results with its helpers.                               *)
(*                                                                         *)
(* Conventions.                                                            *)
(*   - A Python dict is a TLA+ record; a key the dict lacks is a field the  *)
(*     record lacks (tested with DOMAIN).                                  *)
(*   - Python None is NoneStr for text fields and NoneNum for numbers.     *)
(*   - match_score is counted in hundredths (0.95 is 95), salaries in      *)
(*     thousands, a job_id (a UUID) is a positive integer.                 *)
(***************************************************************************)
EXTENDS Integers, Sequences, FiniteSets, TLC

VARIABLES
    pc,               \* position of the request being served
    query,            \* search_jobs: the argument `query`
    parsed_filters,   \* search_jobs: local parsed_filters
    vector_results,   \* search_jobs: local vector_results
    scylla_results,   \* search_jobs: local scylla_results
    db_rows,          \* filter_jobs: local rows, what session.execute answered
    merged,           \* outcome of _merge_and_rank_results (returned list or raised)
    response,         \* what search_jobs handed to its caller
    vector_repo,      \* vector_repo.py: module global _vector_repo
    scylla_repo,      \* scylla_repo.py: module global _scylla_repo
    vec_failure,      \* how the vector store failed during this request
    scy_failure,      \* how the structured store failed during this request
    gemini,           \* parse_query_with_gemini: what the Gemini call yields
    text,             \* generate_mock_embedding: the argument `text`
    EMBEDDING_DIMENSION,  \* config.py: the configured dimension
    md5,              \* hashlib.md5: the digest of every text
    embedding,        \* generate_mock_embedding: the returned list
    previous_call,    \* the call of generate_mock_embedding before this one
    callers,          \* concurrent search_jobs calls: each thread's locals
    store_up,         \* per thread, whether each store accepts a connection
    constructed,      \* repository objects constructed so far, per class,
                      \* and which of them each module global refers to
    scored_row,       \* _calculate_text_similarity_score: the argument job_data
    base_score,       \* _calculate_text_similarity_score: the returned score
    new_job,          \* insert_single_job: the argument job_data
    scylla_success,   \* insert_single_job: local scylla_success
    vector_success,   \* insert_single_job: local vector_success
    insert_returned,  \* insert_single_job: the returned value
    jobs_table,       \* job_ids of the rows written to the jobs table
    vector_store,     \* job_ids of the vectors written to the vector store
    store_answers     \* how the two stores answer the inserts of this call

\* State of one call of generate_mock_embedding and of the call before it.
embeddingVars == <<text, EMBEDDING_DIMENSION, md5, embedding, previous_call>>

\* State of the threads that serve requests concurrently.
concurrencyVars == <<callers, store_up, constructed>>

\* State of one call of _calculate_text_similarity_score.
scoreVars == <<scored_row, base_score>>

\* State of one call of insert_single_job and of the two stores it writes.
insertVars == <<new_job, scylla_success, vector_success, insert_returned,
                jobs_table, vector_store, store_answers>>

vars == <<pc, query, parsed_filters, vector_results, scylla_results, db_rows,
          merged, response, vector_repo, scylla_repo, vec_failure, scy_failure,
          gemini, embeddingVars, concurrencyVars, scoreVars, insertVars>>

\* No call of generate_mock_embedding has been made.
NoCall == [made |-> FALSE]

EmbeddingIdle ==
    /\ text = ""
    /\ EMBEDDING_DIMENSION = 0
    /\ md5 = <<>>
    /\ embedding = <<>>
    /\ previous_call = NoCall

\* No repository object exists: the objects of each class are numbered
\* from 1 in the order of their construction, and 0 stands for None.
NoneConstructed ==
    [vector |-> 0, scylla |-> 0, vector_global |-> 0, scylla_global |-> 0]

\* No thread is serving a request.
ConcurrencyIdle ==
    /\ callers = <<>>
    /\ store_up = <<>>
    /\ constructed = NoneConstructed

\* Python None for a value not yet assigned.
Unset == "unset"

\* No call of _calculate_text_similarity_score is under way.
ScoreIdle ==
    /\ scored_row = <<>>
    /\ base_score = Unset

\* No call of insert_single_job is under way.
InsertIdle ==
    /\ new_job = <<>>
    /\ scylla_success = Unset
    /\ vector_success = Unset
    /\ insert_returned = Unset
    /\ jobs_table = {}
    /\ vector_store = {}
    /\ store_answers = <<>>

---------------------------------------------------------------------------
(* Bounds and configuration *)

\* Number of distinct job ids in the universe.
NumJobs == 3

\* config.py reads the three caps from the environment; the model runs the
\* service configured with MAX_VECTOR_RESULTS=2 MAX_SCYLLA_RESULTS=2
\* MAX_FINAL_RESULTS=2 (the defaults are 50, 100 and 20).
MAX_VECTOR_RESULTS == 2
MAX_SCYLLA_RESULTS == 2
MAX_FINAL_RESULTS == 2

NoneNum == -1
NoneStr == "None"

JobIds == 1..NumJobs

---------------------------------------------------------------------------
(* Python primitives *)

\* str.lower() over the text universe of the model.
Lower(s) ==
    CASE s = "Python" -> "python"
      [] s = "Java" -> "java"
      [] s = "Dhaka" -> "dhaka"
      [] s = "Python Developer" -> "python developer"
      [] s = "Java Engineer" -> "java engineer"
      [] s = "Analyst" -> "analyst"
      [] s = "Build Python services" -> "build python services"
      [] s = "Software Engineering" -> "software engineering"
      [] s = "AI Engineer" -> "ai engineer"
      [] s = "Backend Engineer" -> "backend engineer"
      [] s = "Data Scientist" -> "data scientist"
      [] s = "Data Science" -> "data science"
      [] s = "Go" -> "go"
      [] OTHER -> s

\* `needle in hay` for two lower-cased texts: the substring relation over the
\* text universe of the model.
Substring(needle, hay) ==
    \/ needle = ""
    \/ needle = hay
    \/ hay = "python developer" /\ needle \in {"python", "developer"}
    \/ hay = "java engineer" /\ needle \in {"java", "engineer"}
    \/ hay = "build python services" /\ needle \in {"python", "services"}

\* Truth value of an Optional[int] / Optional[float]: None and 0 are falsy.
TruthyNum(x) == x # NoneNum /\ x # 0

\* Truth value of an Optional[str]: None and "" are falsy.
TruthyStr(s) == s # NoneStr /\ s # ""

Min(a, b) == IF a <= b THEN a ELSE b

SeqToSet(s) == {s[i] : i \in 1..Len(s)}

\* set(x.lower() for x in xs)
LowerSet(xs) == {Lower(xs[i]) : i \in 1..Len(xs)}

\* All sequences over S of length at most n.
SeqsUpTo(S, n) == UNION {[1..k -> S] : k \in 0..n}

---------------------------------------------------------------------------
(* job_models.py *)

\* ParsedFilters(): the model's defaults.
DefaultFilters ==
    [intent |-> "job_search", keywords |-> <<>>, location |-> NoneStr,
     salary_min |-> NoneNum, salary_max |-> NoneNum,
     employment_type |-> NoneStr, experience_level |-> NoneStr,
     skills |-> <<>>, category |-> NoneStr, status |-> "active",
     geo_radius_km |-> NoneNum, detected_language |-> NoneStr,
     original_query |-> NoneStr]

\* The value a helper returns instead of a Job (Python None).
NoJob == [none |-> TRUE]

---------------------------------------------------------------------------
(* search_service.py: helpers of the fusion *)

HasKey(d, k) == k \in DOMAIN d

\* dict.get(k) with the default None (text field).
GetStr(d, k) == IF HasKey(d, k) THEN d[k] ELSE NoneStr

\* dict.get(k) with the default None (number field).
GetNum(d, k) == IF HasKey(d, k) THEN d[k] ELSE NoneNum

\* Job(...) of _create_job_from_data, lines 126-145: the fields copied from
\* the row, match_score still at the model's default (None).
JobFields(job_data) ==
    [job_id |-> job_data.job_id,
     title |-> job_data.title,
     description |-> GetStr(job_data, "description"),
     category |-> GetStr(job_data, "category"),
     city |-> GetStr(job_data, "city"),
     employment_type |-> GetStr(job_data, "employment_type"),
     salary_min |-> GetNum(job_data, "salary_min"),
     salary_max |-> GetNum(job_data, "salary_max"),
     experience_level |-> GetStr(job_data, "experience_level"),
     skills |-> IF HasKey(job_data, "skills") /\ job_data.skills # <<>>
                THEN job_data.skills ELSE <<>>,
     match_score |-> NoneNum]

\* Faulty variant of _create_job_from_data: match_score is not handed to Job(...).
CreateJobWithoutScore(job_data, match_score) ==
    IF \/ ~HasKey(job_data, "job_id")
       \/ ~HasKey(job_data, "title")
       \/ job_data.title = NoneStr
    THEN NoJob
    ELSE JobFields(job_data)

\* _create_job_from_data: the Job built from a structured row with the given
\* match_score, or NoJob when the constructor raises (job_id or title
\* missing, title None).
_create_job_from_data(job_data, match_score) ==
    IF \/ ~HasKey(job_data, "job_id")
       \/ ~HasKey(job_data, "title")
       \/ job_data.title = NoneStr
    THEN NoJob
    ELSE [JobFields(job_data) EXCEPT !.match_score = match_score]

\* _create_job_from_vector_result: the partial Job of a vector candidate, or
\* NoJob when the constructor raises (job_id missing, title_snippet None).
_create_job_from_vector_result(vector_result) ==
    IF \/ ~HasKey(vector_result, "job_id")
       \/ HasKey(vector_result, "title_snippet")
          /\ vector_result.title_snippet = NoneStr
    THEN NoJob
    ELSE [job_id |-> vector_result.job_id,
          title |-> IF HasKey(vector_result, "title_snippet")
                    THEN vector_result.title_snippet ELSE "",
          description |-> NoneStr,
          category |-> GetStr(vector_result, "category"),
          city |-> NoneStr,
          employment_type |-> NoneStr,
          salary_min |-> NoneNum,
          salary_max |-> NoneNum,
          experience_level |-> NoneStr,
          skills |-> IF HasKey(vector_result, "skills")
                     THEN vector_result.skills ELSE <<>>,
          match_score |-> IF HasKey(vector_result, "match_score")
                          THEN vector_result.match_score ELSE 0]

\* Faulty variant of _passes_filters: the skills test is missing.
PassesFiltersWithoutSkills(job, filters) ==
    /\ ~(TruthyNum(filters.salary_min) /\ TruthyNum(job.salary_min)
         /\ job.salary_min < filters.salary_min)
    /\ ~(TruthyNum(filters.salary_max) /\ TruthyNum(job.salary_max)
         /\ job.salary_max > filters.salary_max)
    /\ ~(TruthyStr(filters.location) /\ TruthyStr(job.city)
         /\ Lower(filters.location) # Lower(job.city))
    /\ ~(TruthyStr(filters.employment_type) /\ TruthyStr(job.employment_type)
         /\ Lower(filters.employment_type) # Lower(job.employment_type))
    /\ ~(TruthyStr(filters.experience_level) /\ TruthyStr(job.experience_level)
         /\ Lower(filters.experience_level) # Lower(job.experience_level))
    /\ ~(TruthyStr(filters.category) /\ TruthyStr(job.category)
         /\ Lower(filters.category) # Lower(job.category))

\* Faulty variant of _passes_filters: a job without a city fails a filter
\* that names a location.
PassesFiltersRejectingAbsent(job, filters) ==
    /\ ~(TruthyStr(filters.location) /\ ~TruthyStr(job.city))
    /\ PassesFiltersWithoutSkills(job, filters)
    /\ ~(filters.skills # <<>> /\ job.skills # <<>>
         /\ LowerSet(filters.skills) \cap LowerSet(job.skills) = {})

\* _passes_filters: a job fails on a field only when the filter has it, the
\* job has it, and the two disagree.
_passes_filters(job, filters) ==
    /\ ~(TruthyNum(filters.salary_min) /\ TruthyNum(job.salary_min)
         /\ job.salary_min < filters.salary_min)
    /\ ~(TruthyNum(filters.salary_max) /\ TruthyNum(job.salary_max)
         /\ job.salary_max > filters.salary_max)
    /\ ~(filters.skills # <<>> /\ job.skills # <<>>
         /\ LowerSet(filters.skills) \cap LowerSet(job.skills) = {})
    /\ ~(TruthyStr(filters.location) /\ TruthyStr(job.city)
         /\ Lower(filters.location) # Lower(job.city))
    /\ ~(TruthyStr(filters.employment_type) /\ TruthyStr(job.employment_type)
         /\ Lower(filters.employment_type) # Lower(job.employment_type))
    /\ ~(TruthyStr(filters.experience_level) /\ TruthyStr(job.experience_level)
         /\ Lower(filters.experience_level) # Lower(job.experience_level))
    /\ ~(TruthyStr(filters.category) /\ TruthyStr(job.category)
         /\ Lower(filters.category) # Lower(job.category))

\* Faulty variant of KeywordMatches: `if` in place of `elif`, so a keyword
\* found in the title and in the description counts 3.
RECURSIVE KeywordMatchesCountingBoth(_, _, _)
KeywordMatchesCountingBoth(keywords, title, description) ==
    IF keywords = <<>> THEN 0
    ELSE LET keyword_lower == Lower(Head(keywords))
             rest == KeywordMatchesCountingBoth(Tail(keywords), title,
                                                description)
         IN  rest + (IF Substring(keyword_lower, title) THEN 2 ELSE 0)
                  + (IF Substring(keyword_lower, description) THEN 1 ELSE 0)

\* The loop of _calculate_text_similarity_score over filters.keywords:
\* 2 per keyword found in the title, else 1 per keyword found in the description.
RECURSIVE KeywordMatches(_, _, _)
KeywordMatches(keywords, title, description) ==
    IF keywords = <<>> THEN 0
    ELSE LET keyword_lower == Lower(Head(keywords))
             rest == KeywordMatches(Tail(keywords), title, description)
         IN  IF Substring(keyword_lower, title) THEN rest + 2
             ELSE IF Substring(keyword_lower, description) THEN rest + 1
             ELSE rest

\* (x or "").lower()
LowerOrEmpty(s) == IF TruthyStr(s) THEN Lower(s) ELSE ""

\* Faulty variant of _calculate_text_similarity_score: the skills are
\* intersected as written, without lower-casing.
SimilarityScoreCaseSensitiveSkills(job_data, filters) ==
    LET keyword_matches ==
            KeywordMatches(filters.keywords,
                           LowerOrEmpty(GetStr(job_data, "title")),
                           LowerOrEmpty(GetStr(job_data, "description")))
        skill_bonus ==
            IF filters.skills # <<>> /\ HasKey(job_data, "skills")
               /\ job_data.skills # <<>>
            THEN Min(10 * Cardinality(SeqToSet(job_data.skills)
                                      \cap SeqToSet(filters.skills)), 20)
            ELSE 0
    IN  Min(50 + Min(5 * keyword_matches, 30) + skill_bonus, 100)

\* _calculate_text_similarity_score, in hundredths: 0.5, plus 0.05 per keyword
\* point up to 0.3, plus 0.1 per overlapping skill up to 0.2, capped at 1.0.
_calculate_text_similarity_score(job_data, filters) ==
    LET keyword_matches ==
            KeywordMatches(filters.keywords,
                           LowerOrEmpty(GetStr(job_data, "title")),
                           LowerOrEmpty(GetStr(job_data, "description")))
        skill_bonus ==
            IF filters.skills # <<>> /\ HasKey(job_data, "skills")
               /\ job_data.skills # <<>>
            THEN Min(10 * Cardinality(LowerSet(job_data.skills)
                                      \cap LowerSet(filters.skills)), 20)
            ELSE 0
    IN  Min(50 + Min(5 * keyword_matches, 30) + skill_bonus, 100)


---------------------------------------------------------------------------
(* search_service.py: _merge_and_rank_results *)

\* What a dict lookup returns when the key is absent (Python None).
NoRow == [none |-> TRUE]

\* scylla_job_map.get(job_id), where scylla_job_map is the dict comprehension
\* {job["job_id"]: job for job in scylla_results}: the last row with the key.
ScyllaJobMapGet(rows, job_id) ==
    LET hits == {i \in 1..Len(rows) : rows[i].job_id = job_id}
    IN  IF hits = {} THEN NoRow
        ELSE rows[CHOOSE i \in hits : \A j \in hits : j <= i]

\* `job_id in processed_jobs`
InDict(processed, job_id) ==
    \E i \in 1..Len(processed) : processed[i].job_id = job_id

\* Faulty variant of DictPut: the accepted jobs are kept in a list, not in a dict.
DictPutAppending(processed, job) == Append(processed, job)

\* processed_jobs[job_id] = job. A dict keeps insertion order: a new key is
\* appended, an existing key keeps its place and takes the new value.
DictPut(processed, job) ==
    IF InDict(processed, job.job_id)
    THEN [i \in 1..Len(processed) |->
            IF processed[i].job_id = job.job_id THEN job ELSE processed[i]]
    ELSE Append(processed, job)

\* The outcome of a call: a returned list of jobs, or an exception.
Returned(jobs) == [raised |-> FALSE, jobs |-> jobs]
Raised == [raised |-> TRUE, jobs |-> <<>>]

\* Step 2 of _merge_and_rank_results: the loop over vector_results.
RECURSIVE VectorLoop(_, _, _, _)
VectorLoop(vs, rows, filters, processed) ==
    IF vs = <<>> THEN Returned(processed)
    ELSE
      LET vector_result == Head(vs) IN
      IF ~HasKey(vector_result, "job_id") THEN Raised
      ELSE
        LET scylla_job == ScyllaJobMapGet(rows, vector_result.job_id) IN
        IF scylla_job # NoRow /\ ~HasKey(vector_result, "match_score")
        THEN Raised
        ELSE
          LET job == IF scylla_job # NoRow
                     THEN _create_job_from_data(scylla_job,
                                                vector_result.match_score)
                     ELSE _create_job_from_vector_result(vector_result)
          IN  VectorLoop(Tail(vs), rows, filters,
                         IF job # NoJob /\ _passes_filters(job, filters)
                         THEN DictPut(processed, job)
                         ELSE processed)

\* Faulty variant of ScyllaLoop: the structured-only job is stored without
\* asking _passes_filters.
RECURSIVE ScyllaLoopUnfiltered(_, _, _)
ScyllaLoopUnfiltered(rows, filters, processed) ==
    IF rows = <<>> THEN processed
    ELSE
      LET scylla_job == Head(rows)
          job == _create_job_from_data(
                     scylla_job,
                     _calculate_text_similarity_score(scylla_job, filters))
      IN  ScyllaLoopUnfiltered(Tail(rows), filters,
                     IF /\ ~InDict(processed, scylla_job.job_id)
                        /\ job # NoJob
                     THEN DictPut(processed, job)
                     ELSE processed)

\* Step 3 of _merge_and_rank_results: the loop over scylla_results.
RECURSIVE ScyllaLoop(_, _, _)
ScyllaLoop(rows, filters, processed) ==
    IF rows = <<>> THEN processed
    ELSE
      LET scylla_job == Head(rows)
          job == _create_job_from_data(
                     scylla_job,
                     _calculate_text_similarity_score(scylla_job, filters))
      IN  ScyllaLoop(Tail(rows), filters,
                     IF /\ ~InDict(processed, scylla_job.job_id)
                        /\ job # NoJob
                        /\ _passes_filters(job, filters)
                     THEN DictPut(processed, job)
                     ELSE processed)

\* The sort key: job.match_score or 0
SortKey(job) == IF TruthyNum(job.match_score) THEN job.match_score ELSE 0

\* Faulty variant of InsertSorted: the job is put before the jobs of equal
\* key, as an ascending sort followed by a reversal would order them.
RECURSIVE InsertSortedBeforeEquals(_, _)
InsertSortedBeforeEquals(sorted, job) ==
    IF sorted = <<>> THEN <<job>>
    ELSE IF SortKey(Head(sorted)) > SortKey(job)
         THEN <<Head(sorted)>> \o InsertSortedBeforeEquals(Tail(sorted), job)
         ELSE <<job>> \o sorted

\* Insertion of one job into a list sorted by SortKey descending, after
\* every job whose key is at least its own.
RECURSIVE InsertSorted(_, _)
InsertSorted(sorted, job) ==
    IF sorted = <<>> THEN <<job>>
    ELSE IF SortKey(Head(sorted)) >= SortKey(job)
         THEN <<Head(sorted)>> \o InsertSorted(Tail(sorted), job)
         ELSE <<job>> \o sorted

\* Faulty variant of SortedByScore: the values are returned in dict order.
SortedByScoreMissing(jobs) == jobs

\* sorted(processed_jobs.values(), key=..., reverse=True): a stable sort, so
\* jobs of equal key keep the dict's order.
RECURSIVE SortedByScore(_)
SortedByScore(jobs) ==
    IF jobs = <<>> THEN <<>>
    ELSE InsertSorted(SortedByScore(SubSeq(jobs, 1, Len(jobs) - 1)),
                      jobs[Len(jobs)])

\* processed_jobs when the two loops are over, or the exception raised on
\* the way (a row or a vector candidate without job_id, a vector candidate
\* without match_score whose job_id is in the map).
ProcessedJobs(vs, rows, filters) ==
    IF \E i \in 1..Len(rows) : ~HasKey(rows[i], "job_id")
    THEN Raised
    ELSE LET afterVector == VectorLoop(vs, rows, filters, <<>>)
         IN  IF afterVector.raised THEN Raised
             ELSE Returned(ScyllaLoop(rows, filters, afterVector.jobs))

\* _merge_and_rank_results
_merge_and_rank_results(vs, rows, filters) ==
    LET processed_jobs == ProcessedJobs(vs, rows, filters)
    IN  IF processed_jobs.raised THEN Raised
        ELSE Returned(SortedByScore(processed_jobs.jobs))


---------------------------------------------------------------------------
(* Inputs: the records the stores and the parser hand to search_jobs *)

\* A row of the jobs table as filter_jobs returns it (dict(row._asdict()):
\* every column is a key, a null column is None, an empty set is None/empty).
Row(job_id, kind) ==
    CASE kind = "python" ->
           [job_id |-> job_id, title |-> "Python Developer",
            description |-> "Build Python services",
            category |-> "Software Engineering", city |-> "Dhaka",
            employment_type |-> "full-time", experience_level |-> "senior",
            salary_min |-> 60, salary_max |-> 90,
            skills |-> <<"python">>, status |-> "active"]
      [] kind = "java" ->
           [job_id |-> job_id, title |-> "Java Engineer",
            description |-> NoneStr,
            category |-> "Software Engineering", city |-> "London",
            employment_type |-> "contract", experience_level |-> "mid",
            salary_min |-> 40, salary_max |-> 50,
            skills |-> <<"Java">>, status |-> "active"]
      [] kind = "bare" ->
           [job_id |-> job_id, title |-> "Analyst",
            description |-> NoneStr, category |-> NoneStr, city |-> NoneStr,
            employment_type |-> NoneStr, experience_level |-> NoneStr,
            salary_min |-> NoneNum, salary_max |-> NoneNum,
            skills |-> <<>>, status |-> "active"]

RowKinds == {"python", "java", "bare"}

\* Rows no repository produces, which _merge_and_rank_results may still be
\* given: a row whose title is None, a row without the key job_id.
MalformedRows ==
    {[Row(1, "python") EXCEPT !.title = NoneStr],
     [title |-> "Analyst", skills |-> <<>>]}

\* Rows whose salary columns hold 0 (an unpaid position).
ZeroSalaryRows ==
    {[Row(2, "java") EXCEPT !.salary_min = 0, !.salary_max = 0]}

\* A vector candidate as WeaviateRepository.search_jobs builds it.
VectorResult(job_id, kind) ==
    CASE kind = "high" ->
           [job_id |-> job_id, title_snippet |-> "AI Engineer",
            category |-> "Software Engineering",
            skills |-> <<"Python">>, match_score |-> 90]
      [] kind = "mid" ->
           [job_id |-> job_id, title_snippet |-> "Backend Engineer",
            category |-> "Software Engineering",
            skills |-> <<"Java">>, match_score |-> 60]
      [] kind = "zero" ->
           [job_id |-> job_id, title_snippet |-> "Data Scientist",
            category |-> "Data Science",
            skills |-> <<"Java">>, match_score |-> 0]
      [] kind = "null" ->
           [job_id |-> job_id, title_snippet |-> "Analyst",
            category |-> NoneStr,
            skills |-> <<>>, match_score |-> NoneNum]

VectorKinds == {"high", "mid", "zero", "null"}

\* Candidates no repository produces: one without job_id, one without
\* match_score.
MalformedVectorResults ==
    {[title_snippet |-> "AI Engineer", category |-> NoneStr,
      skills |-> <<>>, match_score |-> 90],
     [job_id |-> 1, title_snippet |-> "AI Engineer", category |-> NoneStr,
      skills |-> <<"Python">>]}

\* The ParsedFilters the parser may produce (parse_query asks the LLM, whose
\* answer is any valid ParsedFilters, and falls back to the rule-based parser).
FilterPool ==
    {DefaultFilters,
     [DefaultFilters EXCEPT !.skills = <<"Python">>,
                            !.keywords = <<"developer">>],
     [DefaultFilters EXCEPT !.salary_min = 50,
                            !.keywords = <<"python", "engineer">>],
     [DefaultFilters EXCEPT !.location = "Dhaka",
                            !.skills = <<"Python", "Java">>,
                            !.keywords = <<"python", "developer", "services">>]}

\* The candidate lists _merge_and_rank_results is applied to as a function:
\* any list, repeated job_ids and malformed entries included.
FusionVectorPool ==
    {VectorResult(id, k) : id \in JobIds, k \in VectorKinds}
        \cup MalformedVectorResults

FusionRowPool ==
    {Row(id, k) : id \in JobIds, k \in RowKinds}
        \cup MalformedRows \cup ZeroSalaryRows

---------------------------------------------------------------------------
(* The fusion applied as a function: SpecFusion *)

NoResponse == [none |-> TRUE]

\* parse_query is not under way.
NoGemini == [kind |-> "none"]
NotRun == [raised |-> FALSE, jobs |-> <<>>, none |-> TRUE]

InitFusion ==
    /\ pc = "fusion_input"
    /\ query = ""
    /\ parsed_filters \in FilterPool
    /\ vector_results \in SeqsUpTo(FusionVectorPool, MAX_VECTOR_RESULTS)
    /\ scylla_results \in SeqsUpTo(FusionRowPool, MAX_SCYLLA_RESULTS)
    /\ db_rows = <<>>
    /\ merged = NotRun
    /\ response = NoResponse
    /\ vector_repo = "None"
    /\ scylla_repo = "None"
    /\ vec_failure = "none"
    /\ scy_failure = "none"
    /\ gemini = NoGemini
    /\ EmbeddingIdle
    /\ ConcurrencyIdle
    /\ ScoreIdle
    /\ InsertIdle

\* One call of _merge_and_rank_results on the drawn inputs.
Fuse ==
    /\ pc = "fusion_input"
    /\ merged' = _merge_and_rank_results(vector_results, scylla_results,
                                         parsed_filters)
    /\ pc' = "fused"
    /\ UNCHANGED <<query, parsed_filters, vector_results, scylla_results,
                   db_rows, response, vector_repo, scylla_repo, vec_failure,
                   scy_failure, gemini, embeddingVars, concurrencyVars,
                   scoreVars, insertVars>>

NextFusion == Fuse

SpecFusion == InitFusion /\ [][NextFusion]_vars

---------------------------------------------------------------------------
(* scylla_repo.py *)

\* The jobs table of the structured store: one row per job_id (the primary
\* key), its attributes cycling through the three kinds of row.
JobsTable ==
    [id \in JobIds |->
        Row(id, CASE id % 3 = 1 -> "python"
                  [] id % 3 = 2 -> "java"
                  [] OTHER -> "bare")]

\* The WHERE clause filter_jobs builds: status always, then city, category,
\* employment_type and experience_level when the filter has them. CQL
\* compares text exactly.
WhereMatches(row, filters) ==
    /\ row.status = (IF TruthyStr(filters.status) THEN filters.status
                     ELSE "active")
    /\ TruthyStr(filters.location) => row.city = filters.location
    /\ TruthyStr(filters.category) => row.category = filters.category
    /\ TruthyStr(filters.employment_type)
          => row.employment_type = filters.employment_type
    /\ TruthyStr(filters.experience_level)
          => row.experience_level = filters.experience_level

\* What session.execute may answer to "SELECT ... WHERE ... LIMIT limit":
\* `limit` of the matching rows (all of them when there are fewer), in the
\* order the store keeps them, which the service does not control.
DbAnswers(filters, limit) ==
    LET matching == {JobsTable[id] : id \in
                        {i \in JobIds : WhereMatches(JobsTable[i], filters)}}
        n == Min(limit, Cardinality(matching))
    IN  {rows \in [1..n -> matching] :
            \A i, j \in 1..n : i # j => rows[i] # rows[j]}

\* The post-query test of filter_jobs on one row: the salary bounds, then the
\* skills as plain (case-sensitive) sets.
KeptByFilterJobs(job_data, filters) ==
    /\ ~(TruthyNum(filters.salary_min) /\ TruthyNum(job_data.salary_min)
         /\ job_data.salary_min < filters.salary_min)
    /\ ~(TruthyNum(filters.salary_max) /\ TruthyNum(job_data.salary_max)
         /\ job_data.salary_max > filters.salary_max)
    /\ ~(filters.skills # <<>> /\ job_data.skills # <<>>
         /\ SeqToSet(filters.skills) \cap SeqToSet(job_data.skills) = {})

\* ScyllaRepository.filter_jobs on the rows the store answered.
filter_jobs(rows, filters) ==
    SelectSeq(rows, LAMBDA job_data : KeptByFilterJobs(job_data, filters))

---------------------------------------------------------------------------
(* vector_repo.py *)

\* What the Weaviate query may answer: at most `limit` objects, nearest
\* first. Nothing keeps the store from holding two objects of one job.
WeaviateAnswers(limit) ==
    LET pool == {VectorResult(id, k) : id \in JobIds, k \in {"high", "mid"}}
    IN  {vs \in SeqsUpTo(pool, limit) :
            \A i \in 1..(Len(vs) - 1) :
                vs[i].match_score >= vs[i + 1].match_score}

\* The three hard-coded candidates of MockVectorRepository.search_jobs.
MockJob(n, match_score) ==
    CASE n = 1 -> [job_id |-> 101, title_snippet |-> "AI Engineer",
                   category |-> "Software Engineering",
                   skills |-> <<"Python", "TensorFlow", "Machine Learning">>,
                   match_score |-> match_score]
      [] n = 2 -> [job_id |-> 102, title_snippet |-> "Backend Engineer",
                   category |-> "Software Engineering",
                   skills |-> <<"Python", "FastAPI", "PostgreSQL">>,
                   match_score |-> match_score]
      [] n = 3 -> [job_id |-> 103, title_snippet |-> "Data Scientist",
                   category |-> "Data Science",
                   skills |-> <<"Python", "Pandas", "Scikit-learn">>,
                   match_score |-> match_score]

\* max(0.0, min(1.0, x))
Clamp(x) == IF x < 0 THEN 0 ELSE IF x > 100 THEN 100 ELSE x

\* The values random.uniform(-0.1, 0.1) is drawn from: the two ends.
MockOffsets == {0 - 10, 10}

\* mock_jobs.sort(key=match_score, reverse=True): a stable descending sort.
RECURSIVE InsertByMatchScore(_, _)
InsertByMatchScore(sorted, item) ==
    IF sorted = <<>> THEN <<item>>
    ELSE IF Head(sorted).match_score >= item.match_score
         THEN <<Head(sorted)>> \o InsertByMatchScore(Tail(sorted), item)
         ELSE <<item>> \o sorted

\* MockVectorRepository.search_jobs, given the three random offsets.
MockSearchJobs(o1, o2, o3, limit) ==
    LET sorted ==
          InsertByMatchScore(
            InsertByMatchScore(<<MockJob(1, Clamp(95 + o1))>>,
                               MockJob(2, Clamp(88 + o2))),
            MockJob(3, Clamp(82 + o3)))
    IN  SubSeq(sorted, 1, Min(limit, 3))

---------------------------------------------------------------------------
(* search_service.py: search_jobs *)

Queries == {"python developer in Dhaka", "analyst"}

\* Faulty variant of Truncate: the slice is one too long.
TruncateOneTooMany(jobs) == SubSeq(jobs, 1, Min(MAX_FINAL_RESULTS + 1, Len(jobs)))

\* merged_jobs[:MAX_FINAL_RESULTS]
Truncate(jobs) == SubSeq(jobs, 1, Min(MAX_FINAL_RESULTS, Len(jobs)))

\* What the caller of search_jobs receives when an exception leaves it.
Propagated == [exception |-> TRUE]

\* Faulty variant of search_jobs_response: no except branch, the exception leaves
\* search_jobs.
SearchJobsWithoutExcept(q, filters, outcome) ==
    IF outcome.raised
    THEN Propagated
    ELSE [query |-> q, parsed_filters |-> filters,
          results |-> Truncate(outcome.jobs)]

\* The try/except of search_jobs around the outcome of its body: the
\* response of lines 55-59 when the body ran through, the response of the
\* except branch (default filters, no results) when anything raised.
search_jobs_response(q, filters, outcome) ==
    IF outcome.raised
    THEN [query |-> q, parsed_filters |-> DefaultFilters, results |-> <<>>]
    ELSE [query |-> q, parsed_filters |-> filters,
          results |-> Truncate(outcome.jobs)]

Init ==
    /\ pc = "idle"
    /\ query = ""
    /\ parsed_filters = DefaultFilters
    /\ vector_results = <<>>
    /\ scylla_results = <<>>
    /\ db_rows = <<>>
    /\ merged = NotRun
    /\ response = NoResponse
    /\ vector_repo = "None"
    /\ scylla_repo = "None"
    /\ vec_failure = "none"
    /\ scy_failure = "none"
    /\ gemini = NoGemini
    /\ EmbeddingIdle
    /\ ConcurrencyIdle
    /\ ScoreIdle
    /\ InsertIdle

\* search_jobs, lines 22-31: a request arrives and is parsed. parse_query
\* and get_query_embedding catch every failure of the LLM service themselves
\* and fall back (rule-based parser, mock embedding), so both return. The
\* embedding only feeds the vector query, whose answer the store chooses.
Parse ==
    /\ pc = "idle"
    /\ query' \in Queries
    /\ parsed_filters' \in FilterPool
    /\ pc' = "parsed"
    /\ UNCHANGED <<vector_results, scylla_results, db_rows, merged, response,
                   vector_repo, scylla_repo, vec_failure, scy_failure, gemini,
                   embeddingVars, concurrencyVars, scoreVars, insertVars>>

\* search_jobs, lines 33-36: get_singleton_vector_repository, then
\* vector_repo.search_jobs.
VectorSearch ==
    /\ pc = "parsed"
    /\ \/ \* a WeaviateRepository exists or is built now; the query answers
          /\ vector_repo \in {"None", "WeaviateRepository"}
          /\ vector_repo' = "WeaviateRepository"
          /\ vector_results' \in WeaviateAnswers(MAX_VECTOR_RESULTS)
          /\ vec_failure' = "none"
       \/ \* the query raises: WeaviateRepository.search_jobs returns []
          /\ vector_repo \in {"None", "WeaviateRepository"}
          /\ vector_repo' = "WeaviateRepository"
          /\ vector_results' = <<>>
          /\ vec_failure' = "search"
       \/ \* WeaviateRepository() raises: get_vector_repository falls back
          \* to a MockVectorRepository, which becomes the singleton
          /\ vector_repo = "None"
          /\ vector_repo' = "MockVectorRepository"
          /\ \E o1, o2, o3 \in MockOffsets :
                vector_results' = MockSearchJobs(o1, o2, o3, MAX_VECTOR_RESULTS)
          /\ vec_failure' = "connect"
       \/ \* the singleton is the mock of an earlier request
          /\ vector_repo = "MockVectorRepository"
          /\ vector_repo' = vector_repo
          /\ \E o1, o2, o3 \in MockOffsets :
                vector_results' = MockSearchJobs(o1, o2, o3, MAX_VECTOR_RESULTS)
          /\ vec_failure' = "none"
    /\ pc' = "vector_done"
    /\ UNCHANGED <<query, parsed_filters, scylla_results, db_rows, merged,
                   response, scylla_repo, scy_failure, gemini, embeddingVars,
                   concurrencyVars, scoreVars, insertVars>>

\* search_jobs, lines 38-68: get_scylla_repository, filter_jobs, the
\* fusion, the cut to MAX_FINAL_RESULTS and the response, with the except
\* branch for whatever raised on the way.
StructuredSearchAndRespond ==
    /\ pc = "vector_done"
    /\ \/ \* ScyllaRepository() raises (_connect, _create_keyspace,
          \* _create_tables or _prepare_statements): nothing catches it
          \* before the except branch of search_jobs
          /\ scylla_repo = "None"
          /\ scylla_repo' = "None"
          /\ scy_failure' = "connect"
          /\ db_rows' = <<>>
          /\ scylla_results' = <<>>
          /\ merged' = NotRun
          /\ response' = search_jobs_response(query, parsed_filters, Raised)
       \/ \* the repository exists or is built now; the store answers
          /\ scylla_repo' = "ScyllaRepository"
          /\ scy_failure' = "none"
          /\ \E rows \in DbAnswers(parsed_filters, MAX_SCYLLA_RESULTS) :
                LET results == filter_jobs(rows, parsed_filters)
                    outcome == _merge_and_rank_results(vector_results, results,
                                                       parsed_filters)
                IN  /\ db_rows' = rows
                    /\ scylla_results' = results
                    /\ merged' = outcome
                    /\ response' = search_jobs_response(query, parsed_filters,
                                                        outcome)
       \/ \* session.execute raises: filter_jobs returns []
          /\ scylla_repo' = "ScyllaRepository"
          /\ scy_failure' = "filter"
          /\ LET outcome == _merge_and_rank_results(vector_results, <<>>,
                                                    parsed_filters)
             IN  /\ db_rows' = <<>>
                 /\ scylla_results' = <<>>
                 /\ merged' = outcome
                 /\ response' = search_jobs_response(query, parsed_filters,
                                                     outcome)
    /\ pc' = "done"
    /\ UNCHANGED <<query, parsed_filters, vector_results, vector_repo,
                   vec_failure, gemini, embeddingVars, concurrencyVars,
                   scoreVars, insertVars>>

\* The next request: the locals of search_jobs are gone, the two module
\* globals stay.
NextRequest ==
    /\ pc = "done"
    /\ pc' = "idle"
    /\ query' = ""
    /\ parsed_filters' = DefaultFilters
    /\ vector_results' = <<>>
    /\ scylla_results' = <<>>
    /\ db_rows' = <<>>
    /\ merged' = NotRun
    /\ response' = NoResponse
    /\ vec_failure' = "none"
    /\ scy_failure' = "none"
    /\ UNCHANGED <<vector_repo, scylla_repo, gemini, embeddingVars,
                   concurrencyVars, scoreVars, insertVars>>

Next ==
    \/ Parse
    \/ VectorSearch
    \/ StructuredSearchAndRespond
    \/ NextRequest

Spec == Init /\ [][Next]_vars

---------------------------------------------------------------------------
(* query_parser.py: text *)

\* The parser searches its query character by character, so here a text is
\* the sequence of its characters. Chars gives the characters of every
\* string the parser model names: the vocabularies of parse_query_rule_based,
\* the literal words of its regular expressions, and the queries.
Chars(s) ==
    CASE s = "Dhaka" -> <<"D", "h", "a", "k", "a">>
      [] s = "Chittagong" ->
           <<"C", "h", "i", "t", "t", "a", "g", "o", "n", "g">>
      [] s = "Sylhet" -> <<"S", "y", "l", "h", "e", "t">>
      [] s = "Rajshahi" -> <<"R", "a", "j", "s", "h", "a", "h", "i">>
      [] s = "Khulna" -> <<"K", "h", "u", "l", "n", "a">>
      [] s = "Barisal" -> <<"B", "a", "r", "i", "s", "a", "l">>
      [] s = "Rangpur" -> <<"R", "a", "n", "g", "p", "u", "r">>
      [] s = "Mymensingh" ->
           <<"M", "y", "m", "e", "n", "s", "i", "n", "g", "h">>
      [] s = "Cumilla" -> <<"C", "u", "m", "i", "l", "l", "a">>
      [] s = "Gazipur" -> <<"G", "a", "z", "i", "p", "u", "r">>
      [] s = "Narayanganj" ->
           <<"N", "a", "r", "a", "y", "a", "n", "g", "a", "n", "j">>
      [] s = "Jessore" -> <<"J", "e", "s", "s", "o", "r", "e">>
      [] s = "Bogra" -> <<"B", "o", "g", "r", "a">>
      [] s = "Dinajpur" -> <<"D", "i", "n", "a", "j", "p", "u", "r">>
      [] s = "Pabna" -> <<"P", "a", "b", "n", "a">>
      [] s = "Comilla" -> <<"C", "o", "m", "i", "l", "l", "a">>
      [] s = "New York" -> <<"N", "e", "w", " ", "Y", "o", "r", "k">>
      [] s = "London" -> <<"L", "o", "n", "d", "o", "n">>
      [] s = "Toronto" -> <<"T", "o", "r", "o", "n", "t", "o">>
      [] s = "Sydney" -> <<"S", "y", "d", "n", "e", "y">>
      [] s = "Dubai" -> <<"D", "u", "b", "a", "i">>
      [] s = "Singapore" -> <<"S", "i", "n", "g", "a", "p", "o", "r", "e">>
      [] s = "Bangalore" -> <<"B", "a", "n", "g", "a", "l", "o", "r", "e">>
      [] s = "Mumbai" -> <<"M", "u", "m", "b", "a", "i">>
      [] s = "Python" -> <<"P", "y", "t", "h", "o", "n">>
      [] s = "Java" -> <<"J", "a", "v", "a">>
      [] s = "JavaScript" ->
           <<"J", "a", "v", "a", "S", "c", "r", "i", "p", "t">>
      [] s = "TypeScript" ->
           <<"T", "y", "p", "e", "S", "c", "r", "i", "p", "t">>
      [] s = "C++" -> <<"C", "+", "+">>
      [] s = "C#" -> <<"C", "#">>
      [] s = "Go" -> <<"G", "o">>
      [] s = "Rust" -> <<"R", "u", "s", "t">>
      [] s = "PHP" -> <<"P", "H", "P">>
      [] s = "Ruby" -> <<"R", "u", "b", "y">>
      [] s = "Swift" -> <<"S", "w", "i", "f", "t">>
      [] s = "Kotlin" -> <<"K", "o", "t", "l", "i", "n">>
      [] s = "React" -> <<"R", "e", "a", "c", "t">>
      [] s = "Angular" -> <<"A", "n", "g", "u", "l", "a", "r">>
      [] s = "Vue" -> <<"V", "u", "e">>
      [] s = "Node.js" -> <<"N", "o", "d", "e", ".", "j", "s">>
      [] s = "Express" -> <<"E", "x", "p", "r", "e", "s", "s">>
      [] s = "FastAPI" -> <<"F", "a", "s", "t", "A", "P", "I">>
      [] s = "Django" -> <<"D", "j", "a", "n", "g", "o">>
      [] s = "Flask" -> <<"F", "l", "a", "s", "k">>
      [] s = "Spring" -> <<"S", "p", "r", "i", "n", "g">>
      [] s = "Laravel" -> <<"L", "a", "r", "a", "v", "e", "l">>
      [] s = "TensorFlow" ->
           <<"T", "e", "n", "s", "o", "r", "F", "l", "o", "w">>
      [] s = "PyTorch" -> <<"P", "y", "T", "o", "r", "c", "h">>
      [] s = "Scikit-learn" ->
           <<"S", "c", "i", "k", "i", "t", "-", "l", "e", "a", "r", "n">>
      [] s = "Pandas" -> <<"P", "a", "n", "d", "a", "s">>
      [] s = "NumPy" -> <<"N", "u", "m", "P", "y">>
      [] s = "OpenCV" -> <<"O", "p", "e", "n", "C", "V">>
      [] s = "AWS" -> <<"A", "W", "S">>
      [] s = "Azure" -> <<"A", "z", "u", "r", "e">>
      [] s = "GCP" -> <<"G", "C", "P">>
      [] s = "Docker" -> <<"D", "o", "c", "k", "e", "r">>
      [] s = "Kubernetes" ->
           <<"K", "u", "b", "e", "r", "n", "e", "t", "e", "s">>
      [] s = "Jenkins" -> <<"J", "e", "n", "k", "i", "n", "s">>
      [] s = "Git" -> <<"G", "i", "t">>
      [] s = "MongoDB" -> <<"M", "o", "n", "g", "o", "D", "B">>
      [] s = "PostgreSQL" ->
           <<"P", "o", "s", "t", "g", "r", "e", "S", "Q", "L">>
      [] s = "MySQL" -> <<"M", "y", "S", "Q", "L">>
      [] s = "Redis" -> <<"R", "e", "d", "i", "s">>
      [] s = "Machine Learning" ->
           <<"M", "a", "c", "h", "i", "n", "e", " ", "L", "e", "a", "r",
             "n", "i", "n", "g">>
      [] s = "AI" -> <<"A", "I">>
      [] s = "Data Science" ->
           <<"D", "a", "t", "a", " ", "S", "c", "i", "e", "n", "c", "e">>
      [] s = "DevOps" -> <<"D", "e", "v", "O", "p", "s">>
      [] s = "Frontend" -> <<"F", "r", "o", "n", "t", "e", "n", "d">>
      [] s = "Backend" -> <<"B", "a", "c", "k", "e", "n", "d">>
      [] s = "Full-stack" ->
           <<"F", "u", "l", "l", "-", "s", "t", "a", "c", "k">>
      [] s = "Mobile" -> <<"M", "o", "b", "i", "l", "e">>
      [] s = "full-time" -> <<"f", "u", "l", "l", "-", "t", "i", "m", "e">>
      [] s = "fulltime" -> <<"f", "u", "l", "l", "t", "i", "m", "e">>
      [] s = "permanent" -> <<"p", "e", "r", "m", "a", "n", "e", "n", "t">>
      [] s = "full time" -> <<"f", "u", "l", "l", " ", "t", "i", "m", "e">>
      [] s = "part-time" -> <<"p", "a", "r", "t", "-", "t", "i", "m", "e">>
      [] s = "parttime" -> <<"p", "a", "r", "t", "t", "i", "m", "e">>
      [] s = "part time" -> <<"p", "a", "r", "t", " ", "t", "i", "m", "e">>
      [] s = "contract" -> <<"c", "o", "n", "t", "r", "a", "c", "t">>
      [] s = "contractor" ->
           <<"c", "o", "n", "t", "r", "a", "c", "t", "o", "r">>
      [] s = "freelance" -> <<"f", "r", "e", "e", "l", "a", "n", "c", "e">>
      [] s = "consulting" ->
           <<"c", "o", "n", "s", "u", "l", "t", "i", "n", "g">>
      [] s = "remote" -> <<"r", "e", "m", "o", "t", "e">>
      [] s = "work from home" ->
           <<"w", "o", "r", "k", " ", "f", "r", "o", "m", " ", "h", "o",
             "m", "e">>
      [] s = "wfh" -> <<"w", "f", "h">>
      [] s = "telecommute" ->
           <<"t", "e", "l", "e", "c", "o", "m", "m", "u", "t", "e">>
      [] s = "entry" -> <<"e", "n", "t", "r", "y">>
      [] s = "junior" -> <<"j", "u", "n", "i", "o", "r">>
      [] s = "beginner" -> <<"b", "e", "g", "i", "n", "n", "e", "r">>
      [] s = "fresher" -> <<"f", "r", "e", "s", "h", "e", "r">>
      [] s = "graduate" -> <<"g", "r", "a", "d", "u", "a", "t", "e">>
      [] s = "intern" -> <<"i", "n", "t", "e", "r", "n">>
      [] s = "mid" -> <<"m", "i", "d">>
      [] s = "intermediate" ->
           <<"i", "n", "t", "e", "r", "m", "e", "d", "i", "a", "t", "e">>
      [] s = "experienced" ->
           <<"e", "x", "p", "e", "r", "i", "e", "n", "c", "e", "d">>
      [] s = "senior" -> <<"s", "e", "n", "i", "o", "r">>
      [] s = "lead" -> <<"l", "e", "a", "d">>
      [] s = "principal" -> <<"p", "r", "i", "n", "c", "i", "p", "a", "l">>
      [] s = "architect" -> <<"a", "r", "c", "h", "i", "t", "e", "c", "t">>
      [] s = "manager" -> <<"m", "a", "n", "a", "g", "e", "r">>
      [] s = "director" -> <<"d", "i", "r", "e", "c", "t", "o", "r">>
      [] s = "head" -> <<"h", "e", "a", "d">>
      [] s = "software" -> <<"s", "o", "f", "t", "w", "a", "r", "e">>
      [] s = "developer" -> <<"d", "e", "v", "e", "l", "o", "p", "e", "r">>
      [] s = "programmer" ->
           <<"p", "r", "o", "g", "r", "a", "m", "m", "e", "r">>
      [] s = "engineer" -> <<"e", "n", "g", "i", "n", "e", "e", "r">>
      [] s = "coding" -> <<"c", "o", "d", "i", "n", "g">>
      [] s = "data science" ->
           <<"d", "a", "t", "a", " ", "s", "c", "i", "e", "n", "c", "e">>
      [] s = "data scientist" ->
           <<"d", "a", "t", "a", " ", "s", "c", "i", "e", "n", "t", "i",
             "s", "t">>
      [] s = "analytics" -> <<"a", "n", "a", "l", "y", "t", "i", "c", "s">>
      [] s = "data analyst" ->
           <<"d", "a", "t", "a", " ", "a", "n", "a", "l", "y", "s", "t">>
      [] s = "ai" -> <<"a", "i">>
      [] s = "artificial intelligence" ->
           <<"a", "r", "t", "i", "f", "i", "c", "i", "a", "l", " ", "i",
             "n", "t", "e", "l", "l", "i", "g", "e", "n", "c", "e">>
      [] s = "machine learning" ->
           <<"m", "a", "c", "h", "i", "n", "e", " ", "l", "e", "a", "r",
             "n", "i", "n", "g">>
      [] s = "ml" -> <<"m", "l">>
      [] s = "deep learning" ->
           <<"d", "e", "e", "p", " ", "l", "e", "a", "r", "n", "i", "n",
             "g">>
      [] s = "devops" -> <<"d", "e", "v", "o", "p", "s">>
      [] s = "deployment" ->
           <<"d", "e", "p", "l", "o", "y", "m", "e", "n", "t">>
      [] s = "infrastructure" ->
           <<"i", "n", "f", "r", "a", "s", "t", "r", "u", "c", "t", "u",
             "r", "e">>
      [] s = "cloud" -> <<"c", "l", "o", "u", "d">>
      [] s = "designer" -> <<"d", "e", "s", "i", "g", "n", "e", "r">>
      [] s = "ui" -> <<"u", "i">>
      [] s = "ux" -> <<"u", "x">>
      [] s = "graphic" -> <<"g", "r", "a", "p", "h", "i", "c">>
      [] s = "creative" -> <<"c", "r", "e", "a", "t", "i", "v", "e">>
      [] s = "marketing" -> <<"m", "a", "r", "k", "e", "t", "i", "n", "g">>
      [] s = "digital marketing" ->
           <<"d", "i", "g", "i", "t", "a", "l", " ", "m", "a", "r", "k",
             "e", "t", "i", "n", "g">>
      [] s = "content" -> <<"c", "o", "n", "t", "e", "n", "t">>
      [] s = "social media" ->
           <<"s", "o", "c", "i", "a", "l", " ", "m", "e", "d", "i", "a">>
      [] s = "sales" -> <<"s", "a", "l", "e", "s">>
      [] s = "business development" ->
           <<"b", "u", "s", "i", "n", "e", "s", "s", " ", "d", "e", "v",
             "e", "l", "o", "p", "m", "e", "n", "t">>
      [] s = "account manager" ->
           <<"a", "c", "c", "o", "u", "n", "t", " ", "m", "a", "n", "a",
             "g", "e", "r">>
      [] s = "finance" -> <<"f", "i", "n", "a", "n", "c", "e">>
      [] s = "accounting" ->
           <<"a", "c", "c", "o", "u", "n", "t", "i", "n", "g">>
      [] s = "financial analyst" ->
           <<"f", "i", "n", "a", "n", "c", "i", "a", "l", " ", "a", "n",
             "a", "l", "y", "s", "t">>
      [] s = "human resources" ->
           <<"h", "u", "m", "a", "n", " ", "r", "e", "s", "o", "u", "r",
             "c", "e", "s">>
      [] s = "hr" -> <<"h", "r">>
      [] s = "recruiter" -> <<"r", "e", "c", "r", "u", "i", "t", "e", "r">>
      [] s = "talent acquisition" ->
           <<"t", "a", "l", "e", "n", "t", " ", "a", "c", "q", "u", "i",
             "s", "i", "t", "i", "o", "n">>
      [] s = "teacher" -> <<"t", "e", "a", "c", "h", "e", "r">>
      [] s = "tutor" -> <<"t", "u", "t", "o", "r">>
      [] s = "instructor" ->
           <<"i", "n", "s", "t", "r", "u", "c", "t", "o", "r">>
      [] s = "professor" -> <<"p", "r", "o", "f", "e", "s", "s", "o", "r">>
      [] s = "education" -> <<"e", "d", "u", "c", "a", "t", "i", "o", "n">>
      [] s = "the" -> <<"t", "h", "e">>
      [] s = "and" -> <<"a", "n", "d">>
      [] s = "with" -> <<"w", "i", "t", "h">>
      [] s = "for" -> <<"f", "o", "r">>
      [] s = "job" -> <<"j", "o", "b">>
      [] s = "jobs" -> <<"j", "o", "b", "s">>
      [] s = "work" -> <<"w", "o", "r", "k">>
      [] s = "role" -> <<"r", "o", "l", "e">>
      [] s = "position" -> <<"p", "o", "s", "i", "t", "i", "o", "n">>
      [] s = "within" -> <<"w", "i", "t", "h", "i", "n">>
      [] s = "km" -> <<"k", "m">>
      [] s = "kilometer" -> <<"k", "i", "l", "o", "m", "e", "t", "e", "r">>
      [] s = "kilometres" ->
           <<"k", "i", "l", "o", "m", "e", "t", "r", "e", "s">>
      [] s = "radius" -> <<"r", "a", "d", "i", "u", "s">>
      [] s = "of" -> <<"o", "f">>
      [] s = "salary" -> <<"s", "a", "l", "a", "r", "y">>
      [] s = "minimum" -> <<"m", "i", "n", "i", "m", "u", "m">>
      [] s = "python" -> <<"p", "y", "t", "h", "o", "n">>
      [] s = "backend" -> <<"b", "a", "c", "k", "e", "n", "d">>
      [] s = "django" -> <<"d", "j", "a", "n", "g", "o">>
      [] s = "api" -> <<"a", "p", "i">>
      [] s = "english" -> <<"e", "n", "g", "l", "i", "s", "h">>
      [] s = "full-time senior python developer in Dhaka salary 50k-80k" ->
           <<"f", "u", "l", "l", "-", "t", "i", "m", "e", " ", "s", "e",
             "n", "i", "o", "r", " ", "p", "y", "t", "h", "o", "n", " ",
             "d", "e", "v", "e", "l", "o", "p", "e", "r", " ", "i", "n",
             " ", "D", "h", "a", "k", "a", " ", "s", "a", "l", "a", "r",
             "y", " ", "5", "0", "k", "-", "8", "0", "k">>
      [] s = "python developer in Dhaka" ->
           <<"p", "y", "t", "h", "o", "n", " ", "d", "e", "v", "e", "l",
             "o", "p", "e", "r", " ", "i", "n", " ", "D", "h", "a", "k",
             "a">>
      [] s = "analyst" -> <<"a", "n", "a", "l", "y", "s", "t">>
      [] s = "Senior Java developer" ->
           <<"S", "e", "n", "i", "o", "r", " ", "J", "a", "v", "a", " ",
             "d", "e", "v", "e", "l", "o", "p", "e", "r">>
      [] s = "junior React developer, remote!" ->
           <<"j", "u", "n", "i", "o", "r", " ", "R", "e", "a", "c", "t",
             " ", "d", "e", "v", "e", "l", "o", "p", "e", "r", ",", " ",
             "r", "e", "m", "o", "t", "e", "!">>
      [] s = "javascript engineer 80k-50k" ->
           <<"j", "a", "v", "a", "s", "c", "r", "i", "p", "t", " ", "e",
             "n", "g", "i", "n", "e", "e", "r", " ", "8", "0", "k", "-",
             "5", "0", "k">>
      [] s = "minimum 50k salary data scientist London" ->
           <<"m", "i", "n", "i", "m", "u", "m", " ", "5", "0", "k", " ",
             "s", "a", "l", "a", "r", "y", " ", "d", "a", "t", "a", " ",
             "s", "c", "i", "e", "n", "t", "i", "s", "t", " ", "L", "o",
             "n", "d", "o", "n">>
      [] s = "40000 to 60000 marketing jobs" ->
           <<"4", "0", "0", "0", "0", " ", "t", "o", " ", "6", "0", "0",
             "0", "0", " ", "m", "a", "r", "k", "e", "t", "i", "n", "g",
             " ", "j", "o", "b", "s">>
      [] s = "the best great awesome amazing wonderful fantastic jobs" ->
           <<"t", "h", "e", " ", "b", "e", "s", "t", " ", "g", "r", "e",
             "a", "t", " ", "a", "w", "e", "s", "o", "m", "e", " ", "a",
             "m", "a", "z", "i", "n", "g", " ", "w", "o", "n", "d", "e",
             "r", "f", "u", "l", " ", "f", "a", "n", "t", "a", "s", "t",
             "i", "c", " ", "j", "o", "b", "s">>
      [] s = "lead architect within 5 km of Sylhet" ->
           <<"l", "e", "a", "d", " ", "a", "r", "c", "h", "i", "t", "e",
             "c", "t", " ", "w", "i", "t", "h", "i", "n", " ", "5", " ",
             "k", "m", " ", "o", "f", " ", "S", "y", "l", "h", "e", "t">>
      [] s = "10 km radius part time teacher" ->
           <<"1", "0", " ", "k", "m", " ", "r", "a", "d", "i", "u", "s",
             " ", "p", "a", "r", "t", " ", "t", "i", "m", "e", " ", "t",
             "e", "a", "c", "h", "e", "r">>
      [] s = "radius of 3 kilometres designer" ->
           <<"r", "a", "d", "i", "u", "s", " ", "o", "f", " ", "3", " ",
             "k", "i", "l", "o", "m", "e", "t", "r", "e", "s", " ", "d",
             "e", "s", "i", "g", "n", "e", "r">>
      [] s = "50k minimum accountant Sydney" ->
           <<"5", "0", "k", " ", "m", "i", "n", "i", "m", "u", "m", " ",
             "a", "c", "c", "o", "u", "n", "t", "a", "n", "t", " ", "S",
             "y", "d", "n", "e", "y">>
      [] s = "python 3 to 5 years" ->
           <<"p", "y", "t", "h", "o", "n", " ", "3", " ", "t", "o", " ",
             "5", " ", "y", "e", "a", "r", "s">>
      [] s = "AI engineer" ->
           <<"A", "I", " ", "e", "n", "g", "i", "n", "e", "e", "r">>
      [] s = "maintain legacy systems" ->
           <<"m", "a", "i", "n", "t", "a", "i", "n", " ", "l", "e", "g",
             "a", "c", "y", " ", "s", "y", "s", "t", "e", "m", "s">>
      [] s = "Go programmer at google" ->
           <<"G", "o", " ", "p", "r", "o", "g", "r", "a", "m", "m", "e",
             "r", " ", "a", "t", " ", "g", "o", "o", "g", "l", "e">>
      [] s = "salary 40-60k devops Comilla" ->
           <<"s", "a", "l", "a", "r", "y", " ", "4", "0", "-", "6", "0",
             "k", " ", "d", "e", "v", "o", "p", "s", " ", "C", "o", "m",
             "i", "l", "l", "a">>
      [] s = "principal architect" ->
           <<"p", "r", "i", "n", "c", "i", "p", "a", "l", " ", "a", "r",
             "c", "h", "i", "t", "e", "c", "t">>
      [] s = "experienced recruiter 30 - 45" ->
           <<"e", "x", "p", "e", "r", "i", "e", "n", "c", "e", "d", " ",
             "r", "e", "c", "r", "u", "i", "t", "e", "r", " ", "3", "0",
             " ", "-", " ", "4", "5">>
      [] s = "freelance C++ work" ->
           <<"f", "r", "e", "e", "l", "a", "n", "c", "e", " ", "C", "+",
             "+", " ", "w", "o", "r", "k">>
      [] s = "New York sales 90k" ->
           <<"N", "e", "w", " ", "Y", "o", "r", "k", " ", "s", "a", "l",
             "e", "s", " ", "9", "0", "k">>
      [] s = "" -> <<>>

\* str.lower(), one character at a time.
LowerChar(c) ==
    CASE c = "A" -> "a" [] c = "B" -> "b" [] c = "C" -> "c" [] c = "D" -> "d"
      [] c = "E" -> "e" [] c = "F" -> "f" [] c = "G" -> "g" [] c = "H" -> "h"
      [] c = "I" -> "i" [] c = "J" -> "j" [] c = "K" -> "k" [] c = "L" -> "l"
      [] c = "M" -> "m" [] c = "N" -> "n" [] c = "O" -> "o" [] c = "P" -> "p"
      [] c = "Q" -> "q" [] c = "R" -> "r" [] c = "S" -> "s" [] c = "T" -> "t"
      [] c = "U" -> "u" [] c = "V" -> "v" [] c = "W" -> "w" [] c = "X" -> "x"
      [] c = "Y" -> "y" [] c = "Z" -> "z" [] OTHER -> c

LowerText(t) == [i \in 1..Len(t) |-> LowerChar(t[i])]

\* \d
Digits == {"0", "1", "2", "3", "4", "5", "6", "7", "8", "9"}

\* \s (the queries hold no other white space than the blank)
Whitespace == {" "}

\* \w
WordChars ==
    Digits \cup {"_"} \cup
    {"a", "b", "c", "d", "e", "f", "g", "h", "i", "j", "k", "l", "m", "n",
     "o", "p", "q", "r", "s", "t", "u", "v", "w", "x", "y", "z",
     "A", "B", "C", "D", "E", "F", "G", "H", "I", "J", "K", "L", "M", "N",
     "O", "P", "Q", "R", "S", "T", "U", "V", "W", "X", "Y", "Z"}

DigitValue(c) ==
    CASE c = "0" -> 0 [] c = "1" -> 1 [] c = "2" -> 2 [] c = "3" -> 3
      [] c = "4" -> 4 [] c = "5" -> 5 [] c = "6" -> 6 [] c = "7" -> 7
      [] c = "8" -> 8 [] c = "9" -> 9

\* int(text) for a text of digits.
RECURSIVE ToInt(_)
ToInt(t) ==
    IF t = <<>> THEN 0
    ELSE 10 * ToInt(SubSeq(t, 1, Len(t) - 1)) + DigitValue(t[Len(t)])

\* The text `needle` stands in `hay` from position i on.
TextAt(needle, hay, i) ==
    /\ i + Len(needle) - 1 <= Len(hay)
    /\ \A j \in 1..Len(needle) : hay[i + j - 1] = needle[j]

\* `needle in hay` for two texts.
TextIn(needle, hay) ==
    \E i \in 1..(Len(hay) - Len(needle) + 1) : TextAt(needle, hay, i)

\* The position after the longest run of characters of S that starts at i.
RECURSIVE RunEnd(_, _, _)
RunEnd(t, i, S) ==
    IF i <= Len(t) /\ t[i] \in S THEN RunEnd(t, i + 1, S) ELSE i

\* The position after the longest run of non-blank characters from i.
RECURSIVE WordEnd(_, _)
WordEnd(t, i) ==
    IF i <= Len(t) /\ t[i] \notin Whitespace THEN WordEnd(t, i + 1) ELSE i

\* str.split(): the maximal runs of non-blank characters, from position i on.
RECURSIVE SplitFrom(_, _)
SplitFrom(t, i) ==
    LET a == RunEnd(t, i, Whitespace)
        b == WordEnd(t, a)
    IN  IF a > Len(t) THEN <<>>
        ELSE <<SubSeq(t, a, b - 1)>> \o SplitFrom(t, b)

\* re.sub(r'[^\w\s]', '', word.lower())
WordClean(word) ==
    SelectSeq(LowerText(word), LAMBDA c : c \in WordChars \cup Whitespace)

---------------------------------------------------------------------------
(* query_parser.py: the regular expressions of parse_query_rule_based *)

\* The character U+2013 of the class [-–to]; no query of the model holds it.
EnDash == "en-dash"

\* The class [-–to] of the first and third salary pattern.
RangeSeparators == {"-", EnDash, "t", "o"}

\* The position after an optional character of ks at i.
SkipOptional(t, i, ks) == IF i <= Len(t) /\ t[i] \in ks THEN i + 1 ELSE i

\* (\d+)[kK]?\s*SEP\s*(\d+)[kK]? tried at position s, where SEP is [-–to]+
\* (sepRun) or a single "-". The classes that follow one another are
\* disjoint, so the greedy match is the only one.
RangeAt(t, s, ks, sepRun) ==
    LET a == RunEnd(t, s, Digits)
        b == SkipOptional(t, a, ks)
        c == RunEnd(t, b, Whitespace)
        d == IF sepRun THEN RunEnd(t, c, RangeSeparators)
             ELSE SkipOptional(t, c, {"-"})
        e == RunEnd(t, d, Whitespace)
        f == RunEnd(t, e, Digits)
        g == SkipOptional(t, f, ks)
    IN  [matched |-> a > s /\ d > c /\ f > e,
         start |-> s, end |-> g,
         group1 |-> SubSeq(t, s, a - 1), group2 |-> SubSeq(t, e, f - 1)]

\* salary_patterns[0]: (\d+)[kK]?\s*[-–to]+\s*(\d+)[kK]?
SalaryPattern1At(t, s) == RangeAt(t, s, {"k", "K"}, TRUE)

\* salary_patterns[1]: (\d+)k?\s*-\s*(\d+)k?
SalaryPattern2At(t, s) == RangeAt(t, s, {"k"}, FALSE)

\* salary_patterns[2]: salary\s+(\d+)[kK]?\s*[-–to]+\s*(\d+)[kK]?
SalaryPattern3At(t, s) ==
    LET a == s + Len(Chars("salary"))
        b == RunEnd(t, a, Whitespace)
        r == RangeAt(t, b, {"k", "K"}, TRUE)
    IN  [matched |-> TextAt(Chars("salary"), t, s) /\ b > a /\ r.matched,
         start |-> s, end |-> r.end,
         group1 |-> r.group1, group2 |-> r.group2]

\* salary_patterns[3]: minimum\s+(\d+)[kK]?\s+salary  (one group)
SalaryPattern4At(t, s) ==
    LET a == s + Len(Chars("minimum"))
        b == RunEnd(t, a, Whitespace)
        c == RunEnd(t, b, Digits)
        d == SkipOptional(t, c, {"k", "K"})
        e == RunEnd(t, d, Whitespace)
    IN  [matched |-> /\ TextAt(Chars("minimum"), t, s)
                     /\ b > a /\ c > b /\ e > d
                     /\ TextAt(Chars("salary"), t, e),
         start |-> s, end |-> e + Len(Chars("salary")),
         group1 |-> SubSeq(t, b, c - 1), group2 |-> <<>>]

\* salary_patterns[4]: (\d+)[kK]?\s+minimum  (one group)
SalaryPattern5At(t, s) ==
    LET a == RunEnd(t, s, Digits)
        b == SkipOptional(t, a, {"k", "K"})
        c == RunEnd(t, b, Whitespace)
    IN  [matched |-> a > s /\ c > b /\ TextAt(Chars("minimum"), t, c),
         start |-> s, end |-> c + Len(Chars("minimum")),
         group1 |-> SubSeq(t, s, a - 1), group2 |-> <<>>]

\* The positions after an alternative of (?:km|kilometer|kilometres) at i.
UnitEnds(t, i) ==
    {i + Len(Chars(u)) : u \in {v \in {"km", "kilometer", "kilometres"} :
                                  TextAt(Chars(v), t, i)}}

\* radius_patterns[0]: within\s+(\d+)\s*(?:km|kilometer|kilometres)
RadiusPattern1At(t, s) ==
    LET a == s + Len(Chars("within"))
        b == RunEnd(t, a, Whitespace)
        c == RunEnd(t, b, Digits)
        d == RunEnd(t, c, Whitespace)
    IN  [matched |-> /\ TextAt(Chars("within"), t, s)
                     /\ b > a /\ c > b /\ UnitEnds(t, d) # {},
         start |-> s, group1 |-> SubSeq(t, b, c - 1)]

\* radius_patterns[1]: (\d+)\s*(?:km|kilometer|kilometres)\s+radius
RadiusPattern2At(t, s) ==
    LET a == RunEnd(t, s, Digits)
        b == RunEnd(t, a, Whitespace)
    IN  [matched |-> /\ a > s
                     /\ \E e \in UnitEnds(t, b) :
                           LET f == RunEnd(t, e, Whitespace)
                           IN  f > e /\ TextAt(Chars("radius"), t, f),
         start |-> s, group1 |-> SubSeq(t, s, a - 1)]

\* radius_patterns[2]: radius\s+of\s+(\d+)\s*(?:km|kilometer|kilometres)
RadiusPattern3At(t, s) ==
    LET a == s + Len(Chars("radius"))
        b == RunEnd(t, a, Whitespace)
        c == b + Len(Chars("of"))
        d == RunEnd(t, c, Whitespace)
        e == RunEnd(t, d, Digits)
        f == RunEnd(t, e, Whitespace)
    IN  [matched |-> /\ TextAt(Chars("radius"), t, s) /\ b > a
                     /\ TextAt(Chars("of"), t, b) /\ d > c
                     /\ e > d /\ UnitEnds(t, f) # {},
         start |-> s, group1 |-> SubSeq(t, d, e - 1)]

\* What re.search returns when nothing matches (Python None).
NoMatch == [matched |-> FALSE]

\* re.search: of the attempts at every position of the text, attempts[s]
\* being the attempt at position s, the leftmost one that matched.
Search(attempts) ==
    LET hits == {s \in DOMAIN attempts : attempts[s].matched}
    IN  IF hits = {} THEN NoMatch
        ELSE attempts[CHOOSE s \in hits : \A r \in hits : s <= r]

\* 'k' in match.group(0).lower()
HasK(t, match) ==
    \E i \in match.start..(match.end - 1) : LowerChar(t[i]) = "k"

\* Faulty variant of SalaryRange: the k of the match is not applied.
SalaryRangeWithoutK(t, match) ==
    LET val1 == ToInt(match.group1)
        val2 == ToInt(match.group2)
    IN  [salary_min |-> IF val1 <= val2 THEN val1 ELSE val2,
         salary_max |-> IF val1 <= val2 THEN val2 ELSE val1]

\* Lines 194-203: a range; both values times 1000 when the match holds a k.
SalaryRange(t, match) ==
    LET factor == IF HasK(t, match) THEN 1000 ELSE 1
        val1 == ToInt(match.group1) * factor
        val2 == ToInt(match.group2) * factor
    IN  [salary_min |-> IF val1 <= val2 THEN val1 ELSE val2,
         salary_max |-> IF val1 <= val2 THEN val2 ELSE val1]

\* Lines 205-208: a minimum only.
SalaryMinimum(t, match) ==
    [salary_min |-> ToInt(match.group1) * (IF HasK(t, match) THEN 1000 ELSE 1),
     salary_max |-> NoneNum]

\* The loop over salary_patterns: the first pattern that matches decides.
DetectSalary(t) ==
    LET m1 == Search([s \in 1..Len(t) |-> SalaryPattern1At(t, s)])
        m2 == Search([s \in 1..Len(t) |-> SalaryPattern2At(t, s)])
        m3 == Search([s \in 1..Len(t) |-> SalaryPattern3At(t, s)])
        m4 == Search([s \in 1..Len(t) |-> SalaryPattern4At(t, s)])
        m5 == Search([s \in 1..Len(t) |-> SalaryPattern5At(t, s)])
    IN  IF m1.matched THEN SalaryRange(t, m1)
        ELSE IF m2.matched THEN SalaryRange(t, m2)
        ELSE IF m3.matched THEN SalaryRange(t, m3)
        ELSE IF m4.matched THEN SalaryMinimum(t, m4)
        ELSE IF m5.matched THEN SalaryMinimum(t, m5)
        ELSE [salary_min |-> NoneNum, salary_max |-> NoneNum]

\* The loop over radius_patterns.
DetectRadius(t) ==
    LET m1 == Search([s \in 1..Len(t) |-> RadiusPattern1At(t, s)])
        m2 == Search([s \in 1..Len(t) |-> RadiusPattern2At(t, s)])
        m3 == Search([s \in 1..Len(t) |-> RadiusPattern3At(t, s)])
    IN  IF m1.matched THEN ToInt(m1.group1)
        ELSE IF m2.matched THEN ToInt(m2.group1)
        ELSE IF m3.matched THEN ToInt(m3.group1)
        ELSE NoneNum

---------------------------------------------------------------------------
(* query_parser.py: parse_query_rule_based *)

\* The list `cities`, in source order.
cities ==
    <<"Dhaka", "Chittagong", "Sylhet", "Rajshahi", "Khulna", "Barisal",
      "Rangpur", "Mymensingh", "Cumilla", "Gazipur", "Narayanganj",
      "Jessore", "Bogra", "Dinajpur", "Pabna", "Comilla", "New York",
      "London", "Toronto", "Sydney", "Dubai", "Singapore", "Bangalore",
      "Mumbai">>

\* The list `skills_db`, in source order.
skills_db ==
    <<"Python", "Java", "JavaScript", "TypeScript", "C++", "C#", "Go",
      "Rust", "PHP", "Ruby", "Swift", "Kotlin", "React", "Angular", "Vue",
      "Node.js", "Express", "FastAPI", "Django", "Flask", "Spring",
      "Laravel", "TensorFlow", "PyTorch", "Scikit-learn", "Pandas",
      "NumPy", "OpenCV", "AWS", "Azure", "GCP", "Docker", "Kubernetes",
      "Jenkins", "Git", "MongoDB", "PostgreSQL", "MySQL", "Redis",
      "Machine Learning", "AI", "Data Science", "DevOps", "Frontend",
      "Backend", "Full-stack", "Mobile">>

\* The dict `employment_types`: its items in insertion order.
employment_types ==
    <<[label |-> "full-time",
       terms |-> <<"full-time", "fulltime", "permanent", "full time">>],
      [label |-> "part-time",
       terms |-> <<"part-time", "parttime", "part time">>],
      [label |-> "contract",
       terms |-> <<"contract", "contractor", "freelance", "consulting">>],
      [label |-> "remote",
       terms |-> <<"remote", "work from home", "wfh", "telecommute">>]>>

\* The dict `experience_levels`: its items in insertion order.
experience_levels ==
    <<[label |-> "entry",
       terms |-> <<"entry", "junior", "beginner", "fresher", "graduate",
                  "intern">>],
      [label |-> "mid",
       terms |-> <<"mid", "intermediate", "experienced", "senior", "lead">>],
      [label |-> "senior",
       terms |-> <<"senior", "principal", "architect", "manager",
                  "director", "head">>]>>

\* The dict `categories`: its items in insertion order.
categories ==
    <<[label |-> "Software Engineering",
       terms |-> <<"software", "developer", "programmer", "engineer",
                  "coding">>],
      [label |-> "Data Science",
       terms |-> <<"data science", "data scientist", "analytics",
                  "data analyst">>],
      [label |-> "AI/ML",
       terms |-> <<"ai", "artificial intelligence", "machine learning",
                  "ml", "deep learning">>],
      [label |-> "DevOps",
       terms |-> <<"devops", "deployment", "infrastructure", "cloud">>],
      [label |-> "Design",
       terms |-> <<"designer", "ui", "ux", "graphic", "creative">>],
      [label |-> "Marketing",
       terms |-> <<"marketing", "digital marketing", "content",
                  "social media">>],
      [label |-> "Sales",
       terms |-> <<"sales", "business development", "account manager">>],
      [label |-> "Finance",
       terms |-> <<"finance", "accounting", "financial analyst">>],
      [label |-> "HR",
       terms |-> <<"human resources", "hr", "recruiter", "talent acquisition">>],
      [label |-> "Education",
       terms |-> <<"teacher", "tutor", "instructor", "professor", "education">>]>>

\* The words line 144 never keeps as keywords.
StopWords ==
    {"the", "and", "with", "for", "job", "jobs", "work", "role", "position"}

\* Lines 140-145: the words of the query, lower-cased and stripped of
\* punctuation, longer than 2 and not a stop word.
CandidateKeywords(q) ==
    LET words == SplitFrom(q, 1)
        cleaned == [i \in 1..Len(words) |-> WordClean(words[i])]
    IN  SelectSeq(cleaned,
                  LAMBDA w : Len(w) > 2
                             /\ w \notin {Chars(s) : s \in StopWords})

\* Lines 153-156: the first city of the list found in the lower-cased query.
DetectLocation(query_lower) ==
    LET hits == {i \in 1..Len(cities) :
                    TextIn(LowerText(Chars(cities[i])), query_lower)}
    IN  IF hits = {} THEN NoneStr
        ELSE cities[CHOOSE i \in hits : \A j \in hits : i <= j]

\* Lines 178-180: every skill of skills_db found in the lower-cased query.
DetectSkills(query_lower) ==
    SelectSeq(skills_db,
              LAMBDA skill : TextIn(LowerText(Chars(skill)), query_lower))

\* Faulty variant of FirstMatching: the loop over the dict goes on after a
\* match, so the last matching item wins.
LastMatching(table, query_lower) ==
    LET hits == {i \in 1..Len(table) :
                    \E j \in 1..Len(table[i].terms) :
                        TextIn(Chars(table[i].terms[j]), query_lower)}
    IN  IF hits = {} THEN 0
        ELSE CHOOSE i \in hits : \A j \in hits : j <= i

\* The loops of lines 219-225, 234-240 and 256-262: the position of the first
\* item of the dict one of whose terms is found in the lower-cased query
\* (0 when there is none).
FirstMatching(table, query_lower) ==
    LET hits == {i \in 1..Len(table) :
                    \E j \in 1..Len(table[i].terms) :
                        TextIn(Chars(table[i].terms[j]), query_lower)}
    IN  IF hits = {} THEN 0
        ELSE CHOOSE i \in hits : \A j \in hits : i <= j

DetectLabel(table, query_lower) ==
    LET i == FirstMatching(table, query_lower)
    IN  IF i = 0 THEN NoneStr ELSE table[i].label

\* table[label], lower-cased: the terms of the label that won.
TermsOf(table, query_lower) ==
    LET i == FirstMatching(table, query_lower)
    IN  IF i = 0 THEN {}
        ELSE {LowerText(Chars(table[i].terms[j])) :
                 j \in 1..Len(table[i].terms)}

\* Lines 265-275: detected_terms.
DetectedTerms(query_lower) ==
    LET location == DetectLocation(query_lower)
        skills == DetectSkills(query_lower)
    IN  (IF TruthyStr(location) THEN {LowerText(Chars(location))} ELSE {})
        \cup TermsOf(employment_types, query_lower)
        \cup TermsOf(experience_levels, query_lower)
        \cup {LowerText(Chars(skills[i])) : i \in 1..Len(skills)}
        \cup TermsOf(categories, query_lower)

\* Faulty variant of FinalKeywords: only the keywords equal to a detected
\* term are removed, those that contain one are kept.
FinalKeywordsOnlyEqual(keywords, detected_terms) ==
    LET final_keywords ==
            SelectSeq(keywords,
                      LAMBDA keyword : keyword \notin detected_terms)
    IN  SubSeq(final_keywords, 1, Min(5, Len(final_keywords)))

\* Lines 278-283: the keywords that neither are nor contain a detected term,
\* cut to the first 5.
FinalKeywords(keywords, detected_terms) ==
    LET final_keywords ==
            SelectSeq(keywords,
                      LAMBDA keyword :
                          /\ keyword \notin detected_terms
                          /\ ~\E term \in detected_terms :
                                 TextIn(term, keyword))
    IN  SubSeq(final_keywords, 1, Min(5, Len(final_keywords)))

\* parse_query_rule_based. The query is a string; its keywords are texts.
parse_query_rule_based(q) ==
    LET query_lower == LowerText(Chars(q))
        salary == DetectSalary(query_lower)
    IN  [DefaultFilters EXCEPT
            !.intent = "job_search",
            !.status = "active",
            !.location = DetectLocation(query_lower),
            !.geo_radius_km = DetectRadius(query_lower),
            !.skills = DetectSkills(query_lower),
            !.salary_min = salary.salary_min,
            !.salary_max = salary.salary_max,
            !.employment_type = DetectLabel(employment_types, query_lower),
            !.experience_level = DetectLabel(experience_levels, query_lower),
            !.category = DetectLabel(categories, query_lower),
            !.keywords = FinalKeywords(CandidateKeywords(Chars(q)),
                                       DetectedTerms(query_lower))]

---------------------------------------------------------------------------
(* query_parser.py: parse_query_with_gemini and parse_query *)

\* A JSON value that pydantic cannot turn into an int (such as "high").
NotAnInt == -2

\* What the Gemini path meets during one call: the configured key is the
\* placeholder; the call raises (no network, quota, timeout); the answer is
\* not JSON; or the answer is the JSON object `data`.
GeminiAnswers ==
    {[kind |-> "placeholder_key"], [kind |-> "raises"], [kind |-> "not_json"]}
    \cup
    {[kind |-> "json", data |-> d] : d \in
        {[intent |-> "job_search",
          keywords |-> <<Chars("python"), Chars("developer")>>,
          location |-> "Dhaka", salary_min |-> 50000, salary_max |-> 80000,
          skills |-> <<"Python">>, category |-> "Software Engineering",
          status |-> "active", detected_language |-> "english",
          original_query |-> "python developer in Dhaka"],
         [keywords |-> <<Chars("python"), Chars("developer"),
                         Chars("engineer"), Chars("backend"),
                         Chars("django"), Chars("api")>>,
          original_query |-> NoneStr],
         [salary_min |-> 80000, salary_max |-> 50000,
          detected_language |-> "english"],
         [intent |-> "job_search", original_query |-> ""],
         [location |-> "Dhaka", salary_min |-> NotAnInt],
         [skills |-> <<"Python">>, geo_radius_km |-> NotAnInt]}}

\* ParsedFilters(**parsed_data) raises a ValidationError.
ValidationFails(parsed_data) ==
    \E f \in {"geo_radius_km", "salary_min", "salary_max"} :
        HasKey(parsed_data, f) /\ parsed_data[f] = NotAnInt

\* ParsedFilters(**parsed_data): the keys given, the defaults for the rest.
ParsedFiltersOf(parsed_data) ==
    [f \in DOMAIN DefaultFilters |->
        IF HasKey(parsed_data, f) THEN parsed_data[f] ELSE DefaultFilters[f]]

\* Lines 94-95: original_query is set to the query when the answer has none.
WithOriginalQuery(parsed_data, q) ==
    IF \/ ~HasKey(parsed_data, "original_query")
       \/ ~TruthyStr(parsed_data.original_query)
    THEN [f \in DOMAIN parsed_data \cup {"original_query"} |->
             IF f = "original_query" THEN q ELSE parsed_data[f]]
    ELSE parsed_data

\* Faulty variant of parse_query_with_gemini: an answer that fails
\* validation yields ParsedFilters() instead of the rule-based result.
ParseWithGeminiNoFallback(q, gemini_answer) ==
    IF gemini_answer.kind \in {"placeholder_key", "raises", "not_json"}
    THEN parse_query_rule_based(q)
    ELSE LET parsed_data == WithOriginalQuery(gemini_answer.data, q)
         IN  IF ValidationFails(parsed_data)
             THEN DefaultFilters
             ELSE ParsedFiltersOf(parsed_data)

\* parse_query_with_gemini: the placeholder key returns the rule-based
\* result at once (line 19); whatever raises inside the try (the call,
\* json.loads, the validation) returns it from the except branch (line 108).
parse_query_with_gemini(q, gemini_answer) ==
    IF gemini_answer.kind = "placeholder_key"
    THEN parse_query_rule_based(q)
    ELSE IF gemini_answer.kind \in {"raises", "not_json"}
    THEN parse_query_rule_based(q)
    ELSE LET parsed_data == WithOriginalQuery(gemini_answer.data, q)
         IN  IF ValidationFails(parsed_data)
             THEN parse_query_rule_based(q)
             ELSE ParsedFiltersOf(parsed_data)

\* parse_query
parse_query(q, gemini_answer) == parse_query_with_gemini(q, gemini_answer)

---------------------------------------------------------------------------
(* The parser applied as a function: SpecParser *)

\* The queries the parser is applied to.
ParserQueries ==
    {"full-time senior python developer in Dhaka salary 50k-80k",
     "python developer in Dhaka",
     "analyst",
     "",
     "Senior Java developer",
     "junior React developer, remote!",
     "javascript engineer 80k-50k",
     "minimum 50k salary data scientist London",
     "40000 to 60000 marketing jobs",
     "the best great awesome amazing wonderful fantastic jobs",
     "lead architect within 5 km of Sylhet",
     "10 km radius part time teacher",
     "radius of 3 kilometres designer",
     "50k minimum accountant Sydney",
     "python 3 to 5 years",
     "AI engineer",
     "maintain legacy systems",
     "Go programmer at google",
     "salary 40-60k devops Comilla",
     "principal architect",
     "experienced recruiter 30 - 45",
     "freelance C++ work",
     "intern",
     "New York sales 90k"}

InitParser ==
    /\ pc = "parser_input"
    /\ query \in ParserQueries
    /\ gemini \in GeminiAnswers
    /\ parsed_filters = DefaultFilters
    /\ vector_results = <<>>
    /\ scylla_results = <<>>
    /\ db_rows = <<>>
    /\ merged = NotRun
    /\ response = NoResponse
    /\ vector_repo = "None"
    /\ scylla_repo = "None"
    /\ vec_failure = "none"
    /\ scy_failure = "none"
    /\ EmbeddingIdle
    /\ ConcurrencyIdle
    /\ ScoreIdle
    /\ InsertIdle

\* One call of parse_query on the drawn query.
ParseQuery ==
    /\ pc = "parser_input"
    /\ parsed_filters' = parse_query(query, gemini)
    /\ pc' = "parsed_query"
    /\ UNCHANGED <<query, gemini, vector_results, scylla_results, db_rows,
                   merged, response, vector_repo, scylla_repo, vec_failure,
                   scy_failure, embeddingVars, concurrencyVars, scoreVars, insertVars>>

\* One call of parse_query_rule_based on the drawn query.
ParseRuleBased ==
    /\ pc = "parser_input"
    /\ parsed_filters' = parse_query_rule_based(query)
    /\ pc' = "parsed_rule_based"
    /\ UNCHANGED <<query, gemini, vector_results, scylla_results, db_rows,
                   merged, response, vector_repo, scylla_repo, vec_failure,
                   scy_failure, embeddingVars, concurrencyVars, scoreVars, insertVars>>

NextParser == ParseQuery \/ ParseRuleBased

SpecParser == InitParser /\ [][NextParser]_vars

---------------------------------------------------------------------------
(* embeddings.py: generate_mock_embedding *)

\* Largest configured EMBEDDING_DIMENSION the model draws.
MaxDimension == 6

\* A float is not-a-number, an infinity or a number. struct.unpack('f', ..)
\* can yield each of them from four bytes of a digest. The four-byte groups
\* of a digest are counted in millions (2.5e8 is 250), the entries of an
\* embedding in thousandths (0.37 is 370).
Nan == [kind |-> "nan", v |-> 0]
PosInf == [kind |-> "+inf", v |-> 0]
NegInf == [kind |-> "-inf", v |-> 0]
Num(n) == [kind |-> "num", v |-> n]

\* a < b on floats: False as soon as one side is not-a-number.
Lt(a, b) ==
    /\ a.kind # "nan"
    /\ b.kind # "nan"
    /\ \/ a.kind = "-inf" /\ b.kind # "-inf"
       \/ a.kind # "+inf" /\ b.kind = "+inf"
       \/ a.kind = "num" /\ b.kind = "num" /\ a.v < b.v

\* min(a, b) of Python: a, unless b < a.
PyMin(a, b) == IF Lt(b, a) THEN b ELSE a

\* max(a, b) of Python: a, unless b > a.
PyMax(a, b) == IF Lt(a, b) THEN b ELSE a

\* float_val / 1e8: millions become thousandths of the quotient; an infinity
\* and not-a-number stay what they are.
DivideBy1e8(x) == IF x.kind = "num" THEN Num(x.v * 10) ELSE x

\* The clamp written with the bounds as second arguments,
\* max(min(float_val / 1e8, 1.0), -1.0): not-a-number is then kept.
NormalizedValBoundsSecond(float_val) ==
    PyMax(PyMin(DivideBy1e8(float_val), Num(1000)), Num(-1000))

\* normalized_val = max(-1.0, min(1.0, float_val / 1e8))
normalized_val(float_val) ==
    PyMax(Num(-1000), PyMin(Num(1000), DivideBy1e8(float_val)))

\* The loop `for i in range(i, stop, 4)` over the bytes of text_hash, whose
\* four-byte group at byte i is text_hash[i \div 4 + 1]: each group that
\* lies inside the digest is unpacked, normalised and appended.
RECURSIVE ConvertFrom(_, _, _, _)
ConvertFrom(i, stop, text_hash, acc) ==
    IF i >= stop THEN acc
    ELSE ConvertFrom(i + 4, stop, text_hash,
                     IF i + 4 <= Len(text_hash) * 4
                     THEN Append(acc, normalized_val(text_hash[(i \div 4) + 1]))
                     ELSE acc)

\* generate_mock_embedding(text) under the configured dimension and the
\* digest function of hashlib.md5.
generate_mock_embedding(txt, dimension, digest) ==
    LET text_hash == digest[txt]
        converted == ConvertFrom(0, Min(Len(text_hash) * 4, dimension * 4),
                                 text_hash, <<>>)
        padded    == converted \o
                     [k \in 1..(dimension - Len(converted)) |-> Num(0)]
    IN  SubSeq(padded, 1, Min(dimension, Len(padded)))

---------------------------------------------------------------------------
(* SpecEmbedding: two calls of generate_mock_embedding *)

EmbeddingTexts == {"", "python developer", "remote jobs in Dhaka"}

\* Digests as their four four-byte groups: numbers beyond 1e8 on both sides,
\* numbers at 1e8 exactly, small numbers, infinities and not-a-number.
DigestPool ==
    {<<Num(250), Num(-37), Nan, Num(0)>>,
     <<PosInf, NegInf, Num(100), Num(-100)>>,
     <<Num(42), Num(-99), Num(7), Num(-500000)>>,
     <<Nan, Nan, NegInf, Num(101)>>}

InitEmbedding ==
    /\ pc = "embedding_input"
    /\ text \in EmbeddingTexts
    /\ EMBEDDING_DIMENSION \in 1..MaxDimension
    /\ md5 \in [EmbeddingTexts -> DigestPool]
    /\ embedding = <<>>
    /\ previous_call = NoCall
    /\ query = ""
    /\ parsed_filters = DefaultFilters
    /\ vector_results = <<>>
    /\ scylla_results = <<>>
    /\ db_rows = <<>>
    /\ merged = NotRun
    /\ response = NoResponse
    /\ vector_repo = "None"
    /\ scylla_repo = "None"
    /\ vec_failure = "none"
    /\ scy_failure = "none"
    /\ gemini = NoGemini
    /\ ConcurrencyIdle
    /\ ScoreIdle
    /\ InsertIdle

\* What every step of SpecEmbedding leaves alone.
outsideEmbedding ==
    <<query, parsed_filters, vector_results, scylla_results, db_rows, merged,
      response, vector_repo, scylla_repo, vec_failure, scy_failure, gemini,
      concurrencyVars, scoreVars, insertVars>>

\* One call of generate_mock_embedding on the drawn text.
Embed ==
    /\ pc = "embedding_input"
    /\ embedding' = generate_mock_embedding(text, EMBEDDING_DIMENSION, md5)
    /\ pc' = "embedded"
    /\ UNCHANGED <<text, EMBEDDING_DIMENSION, md5, previous_call,
                   outsideEmbedding>>

\* A later call in the same process, on the same text or on another one.
EmbedAgain ==
    /\ pc = "embedded"
    /\ previous_call' = [made |-> TRUE, text |-> text,
                         embedding |-> embedding]
    /\ text' \in EmbeddingTexts
    /\ embedding' = generate_mock_embedding(text', EMBEDDING_DIMENSION, md5)
    /\ pc' = "embedded_again"
    /\ UNCHANGED <<EMBEDDING_DIMENSION, md5, outsideEmbedding>>

NextEmbedding == Embed \/ EmbedAgain

SpecEmbedding == InitEmbedding /\ [][NextEmbedding]_vars

---------------------------------------------------------------------------
(* SpecConcurrent: search_jobs served by several threads at once *)

\* Number of requests served concurrently. The endpoint search_jobs is a
\* plain def, which the framework runs on threadpool threads.
NumCallers == 2

Callers == 1..NumCallers

\* The locals of one thread before its first access to a repository.
CallerStart ==
    [pc |-> "test_vector", vector_repo |-> "None", scylla_repo |-> "None",
     vector_instance |-> 0, scylla_instance |-> 0,
     response |-> [status |-> "none", vector_source |-> "None"]]

InitConcurrent ==
    /\ pc = "concurrent"
    /\ callers = [p \in Callers |-> CallerStart]
    /\ store_up \in [Callers -> [vector : BOOLEAN, scylla : BOOLEAN]]
    /\ constructed = NoneConstructed
    /\ vector_repo = "None"
    /\ scylla_repo = "None"
    /\ query = ""
    /\ parsed_filters = DefaultFilters
    /\ vector_results = <<>>
    /\ scylla_results = <<>>
    /\ db_rows = <<>>
    /\ merged = NotRun
    /\ response = NoResponse
    /\ vec_failure = "none"
    /\ scy_failure = "none"
    /\ gemini = NoGemini
    /\ EmbeddingIdle
    /\ ScoreIdle
    /\ InsertIdle

\* What no step of SpecConcurrent touches.
outsideConcurrent ==
    <<pc, query, parsed_filters, vector_results, scylla_results, db_rows,
      merged, response, vec_failure, scy_failure, gemini, embeddingVars,
      store_up, scoreVars, insertVars>>

\* get_singleton_vector_repository, `if _vector_repo is None`: thread p
\* reads the global.
TestVectorGlobal(p) ==
    /\ callers[p].pc = "test_vector"
    /\ callers' = [callers EXCEPT ![p].pc =
                       IF vector_repo = "None" THEN "create_vector"
                       ELSE "return_vector"]
    /\ UNCHANGED <<vector_repo, scylla_repo, constructed, outsideConcurrent>>

\* `_vector_repo = get_vector_repository()`: a WeaviateRepository, or a
\* MockVectorRepository when the connection of this thread fails, is
\* constructed and stored in the global.
CreateVector(p) ==
    /\ callers[p].pc = "create_vector"
    /\ vector_repo' = IF store_up[p].vector THEN "WeaviateRepository"
                      ELSE "MockVectorRepository"
    /\ constructed' = [constructed EXCEPT
                           !.vector = @ + 1,
                           !.vector_global = constructed.vector + 1]
    /\ callers' = [callers EXCEPT ![p].pc = "return_vector"]
    /\ UNCHANGED <<scylla_repo, outsideConcurrent>>

\* `return _vector_repo`: the global is read again; search_jobs of that
\* repository answers the vector query of thread p.
ReturnVector(p) ==
    /\ callers[p].pc = "return_vector"
    /\ callers' = [callers EXCEPT
           ![p].vector_repo = vector_repo,
           ![p].vector_instance = constructed.vector_global,
           ![p].pc = "test_scylla"]
    /\ UNCHANGED <<vector_repo, scylla_repo, constructed, outsideConcurrent>>

\* get_scylla_repository, `if _scylla_repo is None`.
TestScyllaGlobal(p) ==
    /\ callers[p].pc = "test_scylla"
    /\ callers' = [callers EXCEPT ![p].pc =
                       IF scylla_repo = "None" THEN "create_scylla"
                       ELSE "return_scylla"]
    /\ UNCHANGED <<vector_repo, scylla_repo, constructed, outsideConcurrent>>

\* `_scylla_repo = ScyllaRepository()`: the constructor connects; when it
\* raises, nothing is stored and search_jobs answers from its except branch.
CreateScylla(p) ==
    /\ callers[p].pc = "create_scylla"
    /\ IF store_up[p].scylla
       THEN /\ scylla_repo' = "ScyllaRepository"
            /\ constructed' = [constructed EXCEPT
                                   !.scylla = @ + 1,
                                   !.scylla_global = constructed.scylla + 1]
            /\ callers' = [callers EXCEPT ![p].pc = "return_scylla"]
       ELSE /\ scylla_repo' = scylla_repo
            /\ constructed' = constructed
            /\ callers' = [callers EXCEPT
                   ![p].response = [status |-> "error",
                                    vector_source |-> "None"],
                   ![p].pc = "done"]
    /\ UNCHANGED <<vector_repo, outsideConcurrent>>

\* `return _scylla_repo`, filter_jobs, fusion and the response, whose
\* semantic candidates come from the vector repository the thread was given.
ReturnScyllaAndRespond(p) ==
    /\ callers[p].pc = "return_scylla"
    /\ callers' = [callers EXCEPT
           ![p].scylla_repo = scylla_repo,
           ![p].scylla_instance = constructed.scylla_global,
           ![p].response = [status |-> "results",
                            vector_source |-> callers[p].vector_repo],
           ![p].pc = "done"]
    /\ UNCHANGED <<vector_repo, scylla_repo, constructed, outsideConcurrent>>

NextConcurrent ==
    \E p \in Callers :
        \/ TestVectorGlobal(p)
        \/ CreateVector(p)
        \/ ReturnVector(p)
        \/ TestScyllaGlobal(p)
        \/ CreateScylla(p)
        \/ ReturnScyllaAndRespond(p)

SpecConcurrent == InitConcurrent /\ [][NextConcurrent]_vars

---------------------------------------------------------------------------
(* SpecScore: _calculate_text_similarity_score applied as a function *)

\* The rows scored: the rows of the jobs table, a row whose title is None,
\* a row without description, a row with three skills.
ScoreRows ==
    {Row(1, "python"), Row(1, "java"), Row(1, "bare"),
     [Row(1, "python") EXCEPT !.title = NoneStr],
     [job_id |-> 1, title |-> "Python Developer", skills |-> <<"Java">>],
     [Row(1, "python") EXCEPT !.skills = <<"Python", "java", "Go">>]}

\* filters.keywords: none, found in a title, found in a description only,
\* found nowhere, the same keyword more than once.
ScoreKeywordLists ==
    {<<>>,
     <<"developer">>,
     <<"services">>,
     <<"python", "engineer">>,
     <<"python", "developer", "services">>,
     <<"Python", "developer", "python", "developer">>}

\* filters.skills
ScoreSkillLists ==
    {<<>>, <<"Python">>, <<"Python", "python">>, <<"Python", "Java">>,
     <<"Python", "Java", "Go">>}

InitScore ==
    /\ pc = "score_input"
    /\ scored_row \in ScoreRows
    /\ \E keywords \in ScoreKeywordLists, skills \in ScoreSkillLists :
           parsed_filters = [DefaultFilters EXCEPT !.keywords = keywords,
                                                   !.skills = skills]
    /\ base_score = Unset
    /\ query = ""
    /\ vector_results = <<>>
    /\ scylla_results = <<>>
    /\ db_rows = <<>>
    /\ merged = NotRun
    /\ response = NoResponse
    /\ vector_repo = "None"
    /\ scylla_repo = "None"
    /\ vec_failure = "none"
    /\ scy_failure = "none"
    /\ gemini = NoGemini
    /\ EmbeddingIdle
    /\ ConcurrencyIdle
    /\ InsertIdle

\* One call of _calculate_text_similarity_score on the drawn row and filters.
Score ==
    /\ pc = "score_input"
    /\ base_score' = _calculate_text_similarity_score(scored_row,
                                                      parsed_filters)
    /\ pc' = "scored"
    /\ UNCHANGED <<scored_row, query, parsed_filters, vector_results,
                   scylla_results, db_rows, merged, response, vector_repo,
                   scylla_repo, vec_failure, scy_failure, gemini,
                   embeddingVars, concurrencyVars, insertVars>>

NextScore == Score

SpecScore == InitScore /\ [][NextScore]_vars

---------------------------------------------------------------------------
(* insert_jobs.py: insert_single_job *)

\* The keys ScyllaRepository.insert_job reads from job_data.
InsertColumns ==
    {"job_id", "provider_id", "title", "description", "category", "city",
     "country", "latitude", "longitude", "employment_type", "salary_min",
     "salary_max", "currency", "experience_level", "skills", "status",
     "is_verified", "date_posted", "expiry_date"}

\* A job that carries every column.
FullJob ==
    [c \in InsertColumns |->
        CASE c = "job_id" -> 1
          [] c = "title" -> "Python Developer"
          [] c = "description" -> "Build Python services"
          [] c = "skills" -> <<"python">>
          [] c = "category" -> "Software Engineering"
          [] OTHER -> NoneStr]

\* job_data without the key k.
JobWithout(k) == [c \in InsertColumns \ {k} |-> FullJob[c]]

\* The jobs handed to insert_single_job: a complete one, one without title,
\* one without provider_id, one whose title is None.
InsertJobs ==
    {FullJob, JobWithout("title"), JobWithout("provider_id"),
     [FullJob EXCEPT !["title"] = NoneStr]}

\* How the stores answer during the call: whether each accepts a
\* connection, what session.execute does with the INSERT (it returns, it
\* raises, or it raises after the row was written), and whether Weaviate
\* creates the object.
StoreAnswers ==
    [scylla_connect : BOOLEAN,
     scylla_insert : {"ok", "raises", "raises_after_write"},
     weaviate_connect : BOOLEAN,
     weaviate_create : {"ok", "raises"}]

InitInsert ==
    /\ pc = "insert_start"
    /\ new_job \in InsertJobs
    /\ store_answers \in StoreAnswers
    /\ scylla_success = Unset
    /\ vector_success = Unset
    /\ insert_returned = Unset
    /\ jobs_table = {}
    /\ vector_store = {}
    /\ vector_repo = "None"
    /\ scylla_repo = "None"
    /\ query = ""
    /\ parsed_filters = DefaultFilters
    /\ vector_results = <<>>
    /\ scylla_results = <<>>
    /\ db_rows = <<>>
    /\ merged = NotRun
    /\ response = NoResponse
    /\ vec_failure = "none"
    /\ scy_failure = "none"
    /\ gemini = NoGemini
    /\ EmbeddingIdle
    /\ ConcurrencyIdle
    /\ ScoreIdle

\* What no step of insert_single_job touches.
outsideInsert ==
    <<query, parsed_filters, vector_results, scylla_results, db_rows, merged,
      response, vec_failure, scy_failure, gemini, embeddingVars,
      concurrencyVars, scoreVars, new_job, store_answers>>

\* The except branch of insert_single_job, lines 59-61.
ReturnFalse ==
    /\ insert_returned' = "False"
    /\ pc' = "insert_done"

\* Lines 22-23: job_data["job_id"] and job_data['title'] are read; a
\* missing key raises into the except branch.
ReadJob ==
    /\ pc = "insert_start"
    /\ IF HasKey(new_job, "job_id") /\ HasKey(new_job, "title")
       THEN pc' = "scylla_insert" /\ insert_returned' = insert_returned
       ELSE ReturnFalse
    /\ UNCHANGED <<scylla_success, vector_success, jobs_table, vector_store,
                   vector_repo, scylla_repo, outsideInsert>>

\* Lines 26-27: get_scylla_repository, whose constructor raises when the
\* store is unreachable, then insert_job, which returns True when
\* session.execute returned and False on any exception (a missing column
\* included).
ScyllaInsert ==
    /\ pc = "scylla_insert"
    /\ IF ~store_answers.scylla_connect
       THEN /\ ReturnFalse
            /\ UNCHANGED <<scylla_repo, scylla_success, jobs_table>>
       ELSE /\ scylla_repo' = "ScyllaRepository"
            /\ pc' = "scylla_inserted"
            /\ insert_returned' = insert_returned
            /\ IF InsertColumns \subseteq DOMAIN new_job
               THEN /\ scylla_success' =
                           IF store_answers.scylla_insert = "ok"
                           THEN "True" ELSE "False"
                    /\ jobs_table' =
                           IF store_answers.scylla_insert = "raises"
                           THEN jobs_table
                           ELSE jobs_table \cup {new_job.job_id}
               ELSE /\ scylla_success' = "False"
                    /\ jobs_table' = jobs_table
    /\ UNCHANGED <<vector_success, vector_store, vector_repo, outsideInsert>>

\* Faulty variant of CheckScylla: the result of the Scylla insert is not
\* tested and the vector insert follows in any case.
CheckScyllaIgnored ==
    /\ pc = "scylla_inserted"
    /\ pc' = "build_vector"
    /\ UNCHANGED <<insert_returned, scylla_success, vector_success,
                   jobs_table, vector_store, vector_repo, scylla_repo,
                   outsideInsert>>

\* Lines 29-31: `if not scylla_success: return False`.
CheckScylla ==
    /\ pc = "scylla_inserted"
    /\ IF scylla_success # "True"
       THEN ReturnFalse
       ELSE pc' = "build_vector" /\ insert_returned' = insert_returned
    /\ UNCHANGED <<scylla_success, vector_success, jobs_table, vector_store,
                   vector_repo, scylla_repo, outsideInsert>>

\* Lines 34-47: generate_job_embedding, which falls back to the mock
\* embedding by itself, and JobVector(...), whose validation raises when the
\* title is None.
BuildVector ==
    /\ pc = "build_vector"
    /\ IF new_job.title = NoneStr
       THEN ReturnFalse
       ELSE pc' = "vector_insert" /\ insert_returned' = insert_returned
    /\ UNCHANGED <<scylla_success, vector_success, jobs_table, vector_store,
                   vector_repo, scylla_repo, outsideInsert>>

\* Lines 49-50: get_singleton_vector_repository, which hands out a
\* MockVectorRepository when Weaviate is unreachable, then
\* insert_job_vector: the mock always stores and returns True, Weaviate
\* returns False when the creation raises.
VectorInsert ==
    /\ pc = "vector_insert"
    /\ vector_repo' = IF vector_repo # "None" THEN vector_repo
                      ELSE IF store_answers.weaviate_connect
                           THEN "WeaviateRepository"
                           ELSE "MockVectorRepository"
    /\ IF vector_repo' = "MockVectorRepository"
          \/ store_answers.weaviate_create = "ok"
       THEN /\ vector_store' = vector_store \cup {new_job.job_id}
            /\ vector_success' = "True"
       ELSE /\ vector_store' = vector_store
            /\ vector_success' = "False"
    /\ pc' = "vector_inserted"
    /\ UNCHANGED <<scylla_success, insert_returned, jobs_table, scylla_repo,
                   outsideInsert>>

\* Lines 52-57: `if not vector_success: return False`, else return True.
ReturnResult ==
    /\ pc = "vector_inserted"
    /\ insert_returned' = IF vector_success # "True" THEN "False" ELSE "True"
    /\ pc' = "insert_done"
    /\ UNCHANGED <<scylla_success, vector_success, jobs_table, vector_store,
                   vector_repo, scylla_repo, outsideInsert>>

NextInsert ==
    \/ ReadJob
    \/ ScyllaInsert
    \/ CheckScylla
    \/ BuildVector
    \/ VectorInsert
    \/ ReturnResult

SpecInsert == InitInsert /\ [][NextInsert]_vars

---------------------------------------------------------------------------
(* Vocabulary of the properties *)

\* The job_ids of a list of jobs or of well-formed candidates.
IdsOf(items) == {items[i].job_id : i \in 1..Len(items)}

\* The fusion returned a list (it ran and did not raise).
FusionReturned == merged # NotRun /\ ~merged.raised

\* The score a job is ranked by, an absent score counting as 0.
RankScore(job) == IF job.match_score = NoneNum THEN 0 ELSE job.match_score

\* The Job the vector step builds for candidate vr: the structured record
\* with vr's similarity when the job_id is among the structured candidates,
\* the partial Job of vr otherwise.
VectorStepJob(vr, rows) ==
    IF \E i \in 1..Len(rows) : rows[i].job_id = vr.job_id
    THEN _create_job_from_data(ScyllaJobMapGet(rows, vr.job_id), vr.match_score)
    ELSE _create_job_from_vector_result(vr)

\* The vector step accepts candidate vr.
VectorStepAccepts(vr, rows, filters) ==
    LET job == VectorStepJob(vr, rows)
    IN  job # NoJob /\ _passes_filters(job, filters)

\* A structured row is acceptable to the structured-only step.
StructuredStepAccepts(row, filters) ==
    LET job == _create_job_from_data(row, 0)
    IN  job # NoJob /\ _passes_filters(job, filters)

\* The distinct job_ids the fusion accepts, read off the inputs: those of an
\* accepted vector candidate and those of an acceptable structured row.
AcceptedIds(vs, rows, filters) ==
    {vs[i].job_id : i \in {k \in 1..Len(vs) :
                            VectorStepAccepts(vs[k], rows, filters)}}
    \cup
    {rows[i].job_id : i \in {k \in 1..Len(rows) :
                            StructuredStepAccepts(rows[k], filters)}}

\* Every vector candidate carries a similarity in [0, 1].
SimilaritiesInRange ==
    \A i \in 1..Len(vector_results) :
        /\ HasKey(vector_results[i], "match_score")
        /\ vector_results[i].match_score \in 0..100

\* The rows among the structured candidates that carry job_id id.
RowsOf(id) ==
    {scylla_results[i] : i \in {k \in 1..Len(scylla_results) :
                                   scylla_results[k].job_id = id}}

\* Case-insensitive intersection of a row's skills with the filter's.
SkillsIntersect(row, filters) ==
    LowerSet(row.skills) \cap LowerSet(filters.skills) # {}

---------------------------------------------------------------------------
(* C1 *)

\* C1: whatever the two candidate lists (a job_id repeated within a list or
\* across both) and whatever the filter, no two jobs of the list returned by
\* _merge_and_rank_results share a job_id.
C1_NoDuplicateJobIds ==
    (pc = "fused" /\ FusionReturned) =>
        \A i, j \in 1..Len(merged.jobs) :
            i # j => merged.jobs[i].job_id # merged.jobs[j].job_id

\* A fusion whose vector list repeats a job_id that the structured list
\* carries too, and which returns that job.
C1_Witness ==
    /\ pc = "fused" /\ FusionReturned
    /\ Len(vector_results) = 2
    /\ vector_results[1].job_id = vector_results[2].job_id
    /\ VectorStepAccepts(vector_results[1], scylla_results, parsed_filters)
    /\ VectorStepAccepts(vector_results[2], scylla_results, parsed_filters)
    /\ Len(scylla_results) = 2
    /\ scylla_results[1].job_id = vector_results[1].job_id
    /\ scylla_results[2].job_id = vector_results[1].job_id
    /\ vector_results[1].job_id \in IdsOf(merged.jobs)

---------------------------------------------------------------------------
(* C2 *)

\* C2: the results of search_jobs number at most MAX_FINAL_RESULTS, and
\* exactly min(MAX_FINAL_RESULTS, number of distinct job_ids the fusion
\* accepted) (none when the fusion did not return).
C2_ResultLength ==
    pc = "done" =>
        LET accepted == IF FusionReturned
                        THEN Cardinality(AcceptedIds(vector_results,
                                                     scylla_results,
                                                     parsed_filters))
                        ELSE 0
        IN  /\ Len(response.results) <= MAX_FINAL_RESULTS
            /\ Len(response.results) = Min(MAX_FINAL_RESULTS, accepted)

\* A request whose fusion accepted more jobs than the cap lets through.
C2_Witness ==
    /\ pc = "done" /\ FusionReturned
    /\ Cardinality(AcceptedIds(vector_results, scylla_results,
                               parsed_filters)) > MAX_FINAL_RESULTS
    /\ Len(response.results) = MAX_FINAL_RESULTS

---------------------------------------------------------------------------
(* C3 *)

\* C3: when every vector candidate has a similarity in [0, 1], every job of
\* the fusion result has a match_score that is set and in [0, 1]: the
\* similarity of an accepted vector candidate of that job_id when there is
\* one, the heuristic score of a structured row of that job_id otherwise.
C3_MatchScoreSetAndInRange ==
    (pc = "fused" /\ FusionReturned /\ SimilaritiesInRange) =>
        \A n \in 1..Len(merged.jobs) :
            LET job == merged.jobs[n]
                accepting ==
                    {i \in 1..Len(vector_results) :
                        /\ vector_results[i].job_id = job.job_id
                        /\ VectorStepAccepts(vector_results[i], scylla_results,
                                             parsed_filters)}
            IN  /\ job.match_score # NoneNum
                /\ job.match_score \in 0..100
                /\ IF accepting # {}
                   THEN \E i \in accepting :
                           job.match_score = vector_results[i].match_score
                   ELSE \E row \in RowsOf(job.job_id) :
                           job.match_score =
                               _calculate_text_similarity_score(row,
                                                                parsed_filters)

\* A fusion that returns a vector-sourced job enriched from the structured
\* record beside a structured-only job scored above the base.
C3_Witness ==
    /\ pc = "fused" /\ FusionReturned /\ SimilaritiesInRange
    /\ \E a, b \in 1..Len(merged.jobs) :
          /\ merged.jobs[a].job_id \in IdsOf(vector_results)
          /\ merged.jobs[a].job_id \in IdsOf(scylla_results)
          /\ merged.jobs[a].match_score = 60
          /\ merged.jobs[b].job_id \notin IdsOf(vector_results)
          /\ merged.jobs[b].match_score = 85

---------------------------------------------------------------------------
(* C4 *)

\* C4: the list the fusion returns is in non-increasing order of
\* match_score, an absent score counting as 0.
C4_SortedByScoreDescending ==
    (pc = "fused" /\ FusionReturned) =>
        \A i, j \in 1..Len(merged.jobs) :
            i < j => RankScore(merged.jobs[i]) >= RankScore(merged.jobs[j])

\* A fusion whose sort moved jobs: the accepted jobs were not already in
\* rank order, and one of them has no score.
C4_Witness ==
    /\ pc = "fused" /\ FusionReturned
    /\ Len(merged.jobs) >= 3
    /\ merged.jobs # ProcessedJobs(vector_results, scylla_results,
                                   parsed_filters).jobs
    /\ \E i \in 1..Len(merged.jobs) : merged.jobs[i].match_score = NoneNum
    /\ \E i \in 1..Len(merged.jobs) : merged.jobs[i].match_score = 90

---------------------------------------------------------------------------
(* C6 *)

\* C6 as stated: a vector candidate whose job_id is among the structured
\* candidates, and whose structured skills have an empty case-insensitive
\* intersection with a non-empty filter skill set, is absent from the result
\* whatever its similarity.
C6_AsStated ==
    (pc = "fused" /\ FusionReturned /\ parsed_filters.skills # <<>>) =>
        \A id \in IdsOf(vector_results) :
            (/\ RowsOf(id) # {}
             /\ \A row \in RowsOf(id) :
                   HasKey(row, "skills") /\ ~SkillsIntersect(row, parsed_filters))
            => id \notin IdsOf(merged.jobs)

\* C6 amended: the same, for structured records that list at least one
\* skill (a record without skills is never rejected on skills).
C6_FilterRejectionOverridesScore ==
    (pc = "fused" /\ FusionReturned /\ parsed_filters.skills # <<>>) =>
        \A id \in IdsOf(vector_results) :
            (/\ RowsOf(id) # {}
             /\ \A row \in RowsOf(id) :
                   /\ HasKey(row, "skills")
                   /\ row.skills # <<>>
                   /\ ~SkillsIntersect(row, parsed_filters))
            => id \notin IdsOf(merged.jobs)

\* A fusion with a filter on Python, a vector candidate of similarity 0.9
\* whose structured record lists only Java, and another job returned.
C6_Witness ==
    /\ pc = "fused" /\ FusionReturned
    /\ parsed_filters.skills = <<"Python">>
    /\ Len(vector_results) >= 1
    /\ HasKey(vector_results[1], "match_score")
    /\ vector_results[1].match_score = 90
    /\ vector_results[1].skills = <<"Python">>
    /\ RowsOf(vector_results[1].job_id) = {Row(vector_results[1].job_id, "java")}
    /\ vector_results[1].job_id \notin IdsOf(merged.jobs)
    /\ merged.jobs # <<>>

---------------------------------------------------------------------------
(* C7 *)

\* A well-formed SearchResponse: query, parsed_filters and a list of jobs.
IsSearchResponse(r) ==
    /\ DOMAIN r = {"query", "parsed_filters", "results"}
    /\ r.parsed_filters \in FilterPool
    /\ \A i \in 1..Len(r.results) :
          /\ HasKey(r.results[i], "job_id")
          /\ HasKey(r.results[i], "title")
          /\ HasKey(r.results[i], "match_score")

\* C7: search_jobs always hands its caller a well-formed SearchResponse
\* whose query is the input query; no exception leaves it.
C7_AlwaysWellFormedResponse ==
    pc = "done" =>
        /\ response # Propagated
        /\ IsSearchResponse(response)
        /\ response.query = query

\* A request during which the structured repository could not be built.
C7_Witness ==
    /\ pc = "done"
    /\ scy_failure = "connect"
    /\ vector_results # <<>>
    /\ IsSearchResponse(response)

---------------------------------------------------------------------------
(* C8 *)

\* C8: when the structured store fails during a request, the results are
\* built from the vector candidates alone (every candidate that passes the
\* filter predicate is returned as a partial Job, up to the cap) and the
\* parsed filters are returned.
C8_StructuredFailureLeavesVectorResults ==
    (pc = "done" /\ scy_failure # "none") =>
        /\ response.parsed_filters = parsed_filters
        /\ \A i \in 1..Len(vector_results) :
              LET job == _create_job_from_vector_result(vector_results[i])
              IN  _passes_filters(job, parsed_filters) =>
                     \/ job.job_id \in IdsOf(response.results)
                     \/ Len(response.results) = MAX_FINAL_RESULTS
        /\ \A n \in 1..Len(response.results) :
              \E i \in 1..Len(vector_results) :
                 response.results[n] =
                     _create_job_from_vector_result(vector_results[i])

---------------------------------------------------------------------------
(* C9 *)

\* C9: when the vector store fails during a request, at connection time or
\* at search time, the vector channel hands the fusion an empty list, and
\* every job of the results is one of the structured candidates.
C9_VectorFailureLeavesStructuredResults ==
    (pc = "done" /\ vec_failure # "none") =>
        /\ vector_results = <<>>
        /\ \A n \in 1..Len(response.results) :
              response.results[n].job_id \in IdsOf(scylla_results)

---------------------------------------------------------------------------
(* C10 *)

\* C10: when both stores fail during a request, search_jobs answers with no
\* results, the original query and the filters the parser produced.
C10_TotalDegradation ==
    (pc = "done" /\ vec_failure # "none" /\ scy_failure # "none") =>
        /\ IsSearchResponse(response)
        /\ response.results = <<>>
        /\ response.query = query
        /\ response.parsed_filters = parsed_filters

---------------------------------------------------------------------------
(* C11 *)

\* A vector candidate with everything the fusion reads from it.
WellFormedVector(vr) ==
    /\ HasKey(vr, "job_id")
    /\ HasKey(vr, "match_score")
    /\ HasKey(vr, "title_snippet") /\ vr.title_snippet # NoneStr

\* A structured row with everything Job(...) requires.
WellFormedRow(row) ==
    /\ HasKey(row, "job_id")
    /\ HasKey(row, "title") /\ row.title # NoneStr

\* The number of malformed candidates in the two lists together.
MalformedCount ==
    Cardinality({i \in 1..Len(vector_results) :
                    ~WellFormedVector(vector_results[i])})
    + Cardinality({i \in 1..Len(scylla_results) :
                    ~WellFormedRow(scylla_results[i])})

\* C11: with a single malformed candidate in either list, the fusion
\* returns (it does not abort), and every job_id that the well-formed
\* candidates alone would have had accepted is in the returned list.
C11_MalformedCandidateSkipped ==
    (pc = "fused" /\ MalformedCount = 1) =>
        /\ FusionReturned
        /\ AcceptedIds(SelectSeq(vector_results, WellFormedVector),
                       SelectSeq(scylla_results, WellFormedRow),
                       parsed_filters) \subseteq IdsOf(merged.jobs)

---------------------------------------------------------------------------
(* C18 *)

\* The salary bounds of the filter do not exclude the row.
SalaryWithinBounds(row, filters) ==
    /\ ~(TruthyNum(filters.salary_min) /\ TruthyNum(row.salary_min)
         /\ row.salary_min < filters.salary_min)
    /\ ~(TruthyNum(filters.salary_max) /\ TruthyNum(row.salary_max)
         /\ row.salary_max > filters.salary_max)

\* C18: skills are compared case-insensitively at every stage of a search:
\* a row the structured store answered, whose skills intersect the filter's
\* skills up to letter case and whose salary is within the filter's bounds,
\* is among the structured candidates filter_jobs returns.
C18_CaseInsensitiveComparisons ==
    (pc = "done" /\ scy_failure = "none") =>
        \A i \in 1..Len(db_rows) :
            (/\ parsed_filters.skills # <<>>
             /\ db_rows[i].skills # <<>>
             /\ SkillsIntersect(db_rows[i], parsed_filters)
             /\ SalaryWithinBounds(db_rows[i], parsed_filters))
            => db_rows[i].job_id \in IdsOf(scylla_results)

---------------------------------------------------------------------------
(* C19 *)

\* Some filter field is specified, the job's corresponding field is present
\* (not None, not an empty list), and the two disagree.
FieldDisagrees(job, filters) ==
    \/ /\ filters.salary_min # NoneNum /\ job.salary_min # NoneNum
       /\ job.salary_min < filters.salary_min
    \/ /\ filters.salary_max # NoneNum /\ job.salary_max # NoneNum
       /\ job.salary_max > filters.salary_max
    \/ /\ filters.skills # <<>> /\ job.skills # <<>>
       /\ LowerSet(filters.skills) \cap LowerSet(job.skills) = {}
    \/ /\ filters.location # NoneStr /\ job.city # NoneStr
       /\ Lower(filters.location) # Lower(job.city)
    \/ /\ filters.employment_type # NoneStr /\ job.employment_type # NoneStr
       /\ Lower(filters.employment_type) # Lower(job.employment_type)
    \/ /\ filters.experience_level # NoneStr /\ job.experience_level # NoneStr
       /\ Lower(filters.experience_level) # Lower(job.experience_level)
    \/ /\ filters.category # NoneStr /\ job.category # NoneStr
       /\ Lower(filters.category) # Lower(job.category)

\* Every attribute the filter predicate reads is absent from the job.
AllFilteredFieldsAbsent(job) ==
    /\ job.city = NoneStr
    /\ job.salary_min = NoneNum /\ job.salary_max = NoneNum
    /\ job.employment_type = NoneStr /\ job.experience_level = NoneStr
    /\ job.category = NoneStr
    /\ job.skills = <<>>

\* The Jobs the two steps of the fusion build and hand to _passes_filters.
JobsTested ==
    {VectorStepJob(vector_results[i], scylla_results) :
        i \in 1..Len(vector_results)}
    \cup
    {_create_job_from_data(scylla_results[i],
         _calculate_text_similarity_score(scylla_results[i], parsed_filters)) :
        i \in 1..Len(scylla_results)}

\* C19: a job the fusion built and did not return was rejected on a field
\* that the filter specifies, the job has, and on which the two disagree;
\* a job with every filtered attribute absent is returned whatever the filter.
C19_AbsentDataPasses ==
    (pc = "fused" /\ FusionReturned) =>
        \A job \in JobsTested \ {NoJob} :
            /\ job.job_id \notin IdsOf(merged.jobs)
                  => FieldDisagrees(job, parsed_filters)
            /\ AllFilteredFieldsAbsent(job)
                  => job.job_id \in IdsOf(merged.jobs)

\* A fusion under the filter on Dhaka, Python and Java that returns the
\* partial Job of a vector candidate with no attribute but its title, and
\* rejects a structured job of another city.
C19_Witness ==
    /\ pc = "fused" /\ FusionReturned
    /\ parsed_filters.location = "Dhaka"
    /\ parsed_filters.skills # <<>>
    /\ \E job \in JobsTested \ {NoJob} :
          /\ AllFilteredFieldsAbsent(job)
          /\ job.description = NoneStr
          /\ job.job_id \in IdsOf(merged.jobs)
    /\ \E job \in JobsTested \ {NoJob} :
          /\ job.city = "London"
          /\ job.job_id \notin IdsOf(merged.jobs)

---------------------------------------------------------------------------
(* C20 *)

\* C20: a job whose salary_min is present (0 included) and below a specified
\* filter salary_min is rejected, and so is a job whose salary_max is present
\* and above a specified filter salary_max: when every structured row of a
\* job_id is such a row, the job_id is absent from the fusion result.
C20_SalaryBoundsRejectIncludingZero ==
    (pc = "fused" /\ FusionReturned) =>
        \A id \in IdsOf(scylla_results) :
            (\A row \in RowsOf(id) :
                \/ /\ parsed_filters.salary_min # NoneNum
                   /\ row.salary_min # NoneNum
                   /\ row.salary_min < parsed_filters.salary_min
                \/ /\ parsed_filters.salary_max # NoneNum
                   /\ row.salary_max # NoneNum
                   /\ row.salary_max > parsed_filters.salary_max)
            => id \notin IdsOf(merged.jobs)

---------------------------------------------------------------------------
(* C12 *)

\* The Gemini path failed: placeholder key, the call raised, the answer was
\* not JSON, or the answer fails the validation of ParsedFilters.
GeminiFailed ==
    \/ gemini.kind \in {"placeholder_key", "raises", "not_json"}
    \/ /\ gemini.kind = "json"
       /\ \E f \in {"geo_radius_km", "salary_min", "salary_max"} :
             HasKey(gemini.data, f) /\ gemini.data[f] = NotAnInt

\* C12: when the Gemini path fails, parse_query returns a ParsedFilters, and
\* exactly the one parse_query_rule_based returns on the same query.
C12_GeminiFailureFallsBack ==
    (pc = "parsed_query" /\ GeminiFailed) =>
        /\ DOMAIN parsed_filters = DOMAIN DefaultFilters
        /\ parsed_filters = parse_query_rule_based(query)

\* An answer that is JSON and names a location, but fails validation, on a
\* query in which the rule-based parser finds another city.
C12_Witness ==
    /\ pc = "parsed_query"
    /\ gemini.kind = "json"
    /\ GeminiFailed
    /\ HasKey(gemini.data, "location")
    /\ gemini.data.location = "Dhaka"
    /\ parsed_filters.location = "London"
    /\ parsed_filters.salary_min = 50000

---------------------------------------------------------------------------
(* C13 *)

\* C13: the ParsedFilters of parse_query_rule_based has status "active",
\* intent "job_search", no detected_language, and original_query equal to
\* the query.
C13_RuleBasedFixedFields ==
    pc = "parsed_rule_based" =>
        /\ parsed_filters.status = "active"
        /\ parsed_filters.intent = "job_search"
        /\ parsed_filters.detected_language = NoneStr
        /\ parsed_filters.original_query = query

---------------------------------------------------------------------------
(* C14 *)

\* C14: every ParsedFilters parse_query returns, from the Gemini path or
\* from the rule-based path, has at most 5 keywords and, when both salary
\* bounds are present, salary_min <= salary_max.
C14_KeywordCapAndSalaryOrder ==
    pc = "parsed_query" =>
        /\ Len(parsed_filters.keywords) <= 5
        /\ (parsed_filters.salary_min # NoneNum
            /\ parsed_filters.salary_max # NoneNum)
              => parsed_filters.salary_min <= parsed_filters.salary_max

---------------------------------------------------------------------------
(* C15 *)

\* C15: on "full-time senior python developer in Dhaka salary 50k-80k" the
\* rule-based parser yields location Dhaka, employment_type full-time,
\* skills exactly [Python], salary 50000 to 80000 and category Software
\* Engineering.
C15_ParserScenario ==
    (/\ pc = "parsed_rule_based"
     /\ query = "full-time senior python developer in Dhaka salary 50k-80k")
    => /\ parsed_filters.location = "Dhaka"
       /\ parsed_filters.employment_type = "full-time"
       /\ parsed_filters.skills = <<"Python">>
       /\ parsed_filters.salary_min = 50000
       /\ parsed_filters.salary_max = 80000
       /\ parsed_filters.category = "Software Engineering"

\* The rule-based parser has run on the query of the scenario.
C15_Witness ==
    /\ pc = "parsed_rule_based"
    /\ query = "full-time senior python developer in Dhaka salary 50k-80k"
    /\ parsed_filters # DefaultFilters


---------------------------------------------------------------------------
(* C16 *)

\* An entry is a number between -1.0 and 1.0.
InUnitRange(x) == x.kind = "num" /\ x.v >= -1000 /\ x.v <= 1000

\* A call of generate_mock_embedding has returned.
Embedded == pc \in {"embedded", "embedded_again"}

\* C16: generate_mock_embedding returns exactly EMBEDDING_DIMENSION entries
\* for every text and every dimension of at least 1, every entry lies in
\* [-1, 1], the entries past the digest's four groups are the 0.0 padding,
\* and a second call on the same text returns the identical vector.
C16_MockEmbeddingPureAndBounded ==
    Embedded =>
        /\ EMBEDDING_DIMENSION >= 1
        /\ Len(embedding) = EMBEDDING_DIMENSION
        /\ \A k \in 1..Len(embedding) : InUnitRange(embedding[k])
        /\ \A k \in 1..Len(embedding) :
               k > Len(md5[text]) => embedding[k] = Num(0)
        /\ (previous_call.made /\ previous_call.text = text)
               => previous_call.embedding = embedding

\* A second call on the same text, whose digest holds not-a-number and a
\* group beyond 1e8, under a dimension that needs padding.
C16_Witness ==
    /\ pc = "embedded_again"
    /\ previous_call.text = text
    /\ EMBEDDING_DIMENSION > Len(md5[text])
    /\ \E k \in 1..Len(md5[text]) : md5[text][k] = Nan
    /\ \E k \in 1..Len(md5[text]) :
           md5[text][k].kind = "num" /\ md5[text][k].v > 100


---------------------------------------------------------------------------
(* C17 *)

\* The response thread p gets when it is the only request of the process:
\* its own connections decide which repositories it is given.
AloneResponse(p) ==
    IF store_up[p].scylla
    THEN [status |-> "results",
          vector_source |-> IF store_up[p].vector THEN "WeaviateRepository"
                            ELSE "MockVectorRepository"]
    ELSE [status |-> "error", vector_source |-> "None"]

\* Thread p takes a step while another request is still being served.
StepsBesideAnother(p) ==
    /\ callers'[p] # callers[p]
    /\ \E q \in Callers \ {p} : callers[q].pc # "done"

\* C17: concurrent executions of search_jobs share no mutable state. No step
\* of one request writes a variable another request reads or writes (here
\* the module globals _vector_repo and _scylla_repo), and every request is
\* answered as if it ran alone.
C17_NoSharedMutableState ==
    /\ [][pc = "concurrent" =>
             \A p \in Callers :
                 StepsBesideAnother(p) =>
                     UNCHANGED <<vector_repo, scylla_repo>>]_vars
    /\ [](pc = "concurrent" =>
             \A p \in Callers :
                 callers[p].pc = "done" =>
                     callers[p].response = AloneResponse(p))


---------------------------------------------------------------------------
(* C21 *)

\* Vector candidate number i is accepted: it passes, and no earlier vector
\* candidate with its job_id did.
VectorAcceptedAt(i) ==
    /\ VectorStepAccepts(vector_results[i], scylla_results, parsed_filters)
    /\ \A k \in 1..(i - 1) :
           vector_results[k].job_id = vector_results[i].job_id
               => ~VectorStepAccepts(vector_results[k], scylla_results,
                                     parsed_filters)

\* C21: when the job_id of an accepted vector candidate is among the
\* structured candidates, the Job returned for that job_id has the
\* attributes of a structured record with that job_id, and its match_score
\* is the candidate's similarity, not the heuristic score.
C21_StructuredAttributesVectorScore ==
    (pc = "fused" /\ FusionReturned) =>
        \A i \in 1..Len(vector_results) :
            (/\ RowsOf(vector_results[i].job_id) # {}
             /\ VectorAcceptedAt(i))
            => \E j \in 1..Len(merged.jobs) :
                   /\ merged.jobs[j].job_id = vector_results[i].job_id
                   /\ \E row \in RowsOf(vector_results[i].job_id) :
                          [merged.jobs[j] EXCEPT !.match_score = NoneNum]
                              = JobFields(row)
                   /\ merged.jobs[j].match_score
                          = vector_results[i].match_score


---------------------------------------------------------------------------
(* C22 *)

\* The least element of a non-empty set of positions.
FirstOf(S) == CHOOSE i \in S : \A k \in S : i <= k

\* The Job with which job_id id is accepted first: that of the first vector
\* candidate with the job_id that passes, else that of the first structured
\* row with the job_id that passes, scored by the heuristic.
FirstAcceptedJob(id) ==
    LET fromVector ==
            {i \in 1..Len(vector_results) :
                /\ vector_results[i].job_id = id
                /\ VectorStepAccepts(vector_results[i], scylla_results,
                                     parsed_filters)}
        fromStructured ==
            {i \in 1..Len(scylla_results) :
                /\ scylla_results[i].job_id = id
                /\ StructuredStepAccepts(scylla_results[i], parsed_filters)}
    IN  IF fromVector # {}
        THEN VectorStepJob(vector_results[FirstOf(fromVector)],
                           scylla_results)
        ELSE IF fromStructured # {}
        THEN LET row == scylla_results[FirstOf(fromStructured)]
             IN  _create_job_from_data(
                     row, _calculate_text_similarity_score(row,
                                                           parsed_filters))
        ELSE NoJob

\* C22: first acceptance per job_id wins. Every returned Job is, in all its
\* fields and its match_score, the Job with which its job_id was accepted
\* first; no later vector candidate or structured row with the same job_id
\* changed it.
C22_FirstAcceptanceWins ==
    (pc = "fused" /\ FusionReturned) =>
        \A j \in 1..Len(merged.jobs) :
            merged.jobs[j] = FirstAcceptedJob(merged.jobs[j].job_id)


---------------------------------------------------------------------------
(* C23 *)

\* Positions of the filter keywords found in the lower-cased title of the
\* scored row.
KeywordsInTitle ==
    {i \in 1..Len(parsed_filters.keywords) :
        Substring(Lower(parsed_filters.keywords[i]),
                  LowerOrEmpty(GetStr(scored_row, "title")))}

\* Positions of the filter keywords found in the description and not in
\* the title.
KeywordsOnlyInDescription ==
    {i \in 1..Len(parsed_filters.keywords) :
        /\ i \notin KeywordsInTitle
        /\ Substring(Lower(parsed_filters.keywords[i]),
                     LowerOrEmpty(GetStr(scored_row, "description")))}

\* The filter skills that are in the row's skill set, letter case aside.
OverlappingSkills ==
    IF HasKey(scored_row, "skills")
    THEN LowerSet(parsed_filters.skills) \cap LowerSet(scored_row.skills)
    ELSE {}

\* The heuristic score as described, in hundredths, for given weights of a
\* keyword in the title and of a keyword in the description only.
DescribedScore(titleWeight, descriptionWeight) ==
    LET keyword_bonus ==
            Min(titleWeight * Cardinality(KeywordsInTitle)
                + descriptionWeight * Cardinality(KeywordsOnlyInDescription),
                30)
        skill_bonus == Min(10 * Cardinality(OverlappingSkills), 20)
    IN  Clamp(50 + keyword_bonus + skill_bonus)

\* C23 as stated: 0.5, plus 0.2 per filter keyword found in the lower-cased
\* title or 0.1 per keyword found only in the description, capped at 0.3,
\* plus 0.1 per overlapping skill capped at 0.2, clamped to [0, 1].
C23_AsStated ==
    pc = "scored" => base_score = DescribedScore(20, 10)

\* C23, amended: the keyword bonus is 0.1 per filter keyword found in the
\* title and 0.05 per keyword found only in the description; the rest as
\* stated.
C23_HeuristicScore ==
    pc = "scored" => base_score = DescribedScore(10, 5)

\* A scored row with a keyword in its title, another in its description
\* only and an overlapping skill, whose keyword bonus stays below the cap.
C23_Witness ==
    /\ pc = "scored"
    /\ KeywordsInTitle # {}
    /\ KeywordsOnlyInDescription # {}
    /\ OverlappingSkills # {}
    /\ base_score < 100

---------------------------------------------------------------------------
(* C24 *)

\* C24: a structured-only candidate whose title contains exactly one filter
\* keyword, with no other keyword match, and whose skills overlap the
\* filter's in exactly one skill is scored 0.5 + 0.1 + 0.1 = 0.7.
C24_ScenarioScore ==
    (/\ pc = "scored"
     /\ Cardinality(KeywordsInTitle) = 1
     /\ KeywordsOnlyInDescription = {}
     /\ Cardinality(OverlappingSkills) = 1)
    => base_score = 70

\* The scenario: one keyword, found in the title, and one common skill
\* written in different letter case.
C24_Witness ==
    /\ pc = "scored"
    /\ Len(parsed_filters.keywords) = 1
    /\ Cardinality(KeywordsInTitle) = 1
    /\ Cardinality(OverlappingSkills) = 1
    /\ Len(parsed_filters.skills) = 1
    /\ base_score = 70


---------------------------------------------------------------------------
(* C25 *)

\* The lower-cased query of the parser, character by character.
QueryLower == LowerText(Chars(query))

\* Some synonym of the item occurs in the lower-cased query.
SynonymOccurs(item) ==
    \E j \in 1..Len(item.terms) : TextIn(Chars(item.terms[j]), QueryLower)

\* value is the label of the first item of the table, in table order, with
\* a synonym in the query, or None when no item has one.
IsFirstLabel(value, table) ==
    \/ /\ value = NoneStr
       /\ \A i \in 1..Len(table) : ~SynonymOccurs(table[i])
    \/ \E i \in 1..Len(table) :
           /\ value = table[i].label
           /\ SynonymOccurs(table[i])
           /\ \A k \in 1..(i - 1) : ~SynonymOccurs(table[k])

\* C25: in the rule-based parser employment_type, experience_level and
\* category are each the first label in table order (experience: entry,
\* mid, senior) with a synonym in the lower-cased query, or absent; so a
\* query that contains "senior" and no synonym of "entry" is classified
\* "mid", never "senior".
C25_FirstLabelWins ==
    pc = "parsed_rule_based" =>
        /\ IsFirstLabel(parsed_filters.employment_type, employment_types)
        /\ IsFirstLabel(parsed_filters.experience_level, experience_levels)
        /\ IsFirstLabel(parsed_filters.category, categories)
        /\ [i \in 1..Len(experience_levels) |-> experience_levels[i].label]
               = <<"entry", "mid", "senior">>
        /\ (/\ TextIn(Chars("senior"), QueryLower)
            /\ ~SynonymOccurs(experience_levels[1]))
           => parsed_filters.experience_level = "mid"

\* A parsed query that contains "senior" and no synonym of entry, and that
\* names an employment type and a category as well.
C25_Witness ==
    /\ pc = "parsed_rule_based"
    /\ TextIn(Chars("senior"), QueryLower)
    /\ ~SynonymOccurs(experience_levels[1])
    /\ parsed_filters.experience_level = "mid"
    /\ parsed_filters.employment_type # NoneStr
    /\ parsed_filters.category # NoneStr


---------------------------------------------------------------------------
(* C26 *)

\* The synonyms, lower-cased, of the label a table's field was given.
SynonymsOfLabel(value, table) ==
    UNION {{LowerText(Chars(table[i].terms[j])) :
               j \in 1..Len(table[i].terms)} :
           i \in {k \in 1..Len(table) : table[k].label = value}}

\* The consumed terms of a parsed query: the detected location, the
\* synonyms of the winning labels and the detected skills, all lower-cased.
ConsumedTerms ==
    (IF TruthyStr(parsed_filters.location)
     THEN {LowerText(Chars(parsed_filters.location))} ELSE {})
    \cup SynonymsOfLabel(parsed_filters.employment_type, employment_types)
    \cup SynonymsOfLabel(parsed_filters.experience_level, experience_levels)
    \cup SynonymsOfLabel(parsed_filters.category, categories)
    \cup {LowerText(Chars(parsed_filters.skills[i])) :
             i \in 1..Len(parsed_filters.skills)}

\* A keyword equals or contains a consumed term.
Consumed(keyword) == \E term \in ConsumedTerms : TextIn(term, keyword)

\* The step-1 candidate keywords of the query.
Candidates == CandidateKeywords(Chars(query))

\* The positions of the step-1 candidate keywords that survive the removal.
KeptPositions ==
    {i \in 1..Len(Candidates) :
        ~Consumed(Candidates[i])}

\* The n-th kept position, counted from the left.
NthKept(n) ==
    CHOOSE i \in KeptPositions :
        Cardinality({k \in KeptPositions : k <= i}) = n

\* C26: the keywords of the rule-based parser are the first 5, at most, in
\* original order, of the step-1 candidates that neither equal nor contain
\* a consumed term; no returned keyword equals or contains one.
C26_KeywordsRule ==
    pc = "parsed_rule_based" =>
        /\ Len(parsed_filters.keywords) = Min(5, Cardinality(KeptPositions))
        /\ \A n \in 1..Len(parsed_filters.keywords) :
               parsed_filters.keywords[n]
                   = Candidates[NthKept(n)]
        /\ \A n \in 1..Len(parsed_filters.keywords) :
               ~Consumed(parsed_filters.keywords[n])

\* A parsed query with a candidate keyword that contains a consumed term
\* without being one, and with a keyword that is returned.
C26_Witness ==
    /\ pc = "parsed_rule_based"
    /\ \E i \in 1..Len(Candidates) :
           /\ Consumed(Candidates[i])
           /\ Candidates[i] \notin ConsumedTerms
    /\ parsed_filters.keywords # <<>>


---------------------------------------------------------------------------
(* C27 *)

\* The moment job_id id is accepted first: the position of the first vector
\* candidate with the job_id that passes, or, past all vector candidates,
\* that of the first structured row with the job_id that passes.
AcceptanceRank(id) ==
    LET fromVector ==
            {i \in 1..Len(vector_results) :
                /\ vector_results[i].job_id = id
                /\ VectorStepAccepts(vector_results[i], scylla_results,
                                     parsed_filters)}
        fromStructured ==
            {i \in 1..Len(scylla_results) :
                /\ scylla_results[i].job_id = id
                /\ StructuredStepAccepts(scylla_results[i], parsed_filters)}
    IN  IF fromVector # {} THEN FirstOf(fromVector)
        ELSE Len(vector_results) + FirstOf(fromStructured)

\* C27: among returned jobs of equal match_score the order is that of first
\* acceptance: vector candidates in vector-list order, then structured-only
\* rows in structured-list order.
C27_TiesKeepAcceptanceOrder ==
    (pc = "fused" /\ FusionReturned) =>
        \A a, b \in 1..Len(merged.jobs) :
            (a < b /\ merged.jobs[a].match_score = merged.jobs[b].match_score)
            => AcceptanceRank(merged.jobs[a].job_id)
                   < AcceptanceRank(merged.jobs[b].job_id)

\* Two returned jobs of equal match_score, the first accepted from a vector
\* candidate, the second from a structured row alone.
C27_Witness ==
    /\ pc = "fused" /\ FusionReturned
    /\ Len(merged.jobs) = 2
    /\ merged.jobs[1].match_score = merged.jobs[2].match_score
    /\ merged.jobs[1].job_id \in IdsOf(vector_results)
    /\ merged.jobs[2].job_id \notin IdsOf(vector_results)


---------------------------------------------------------------------------
(* C28 *)

\* C28: every job returned by _merge_and_rank_results satisfies
\* _passes_filters for the filters of the query, and its job_id occurs among
\* the vector candidates or among the structured candidates.
C28_OnlyPassingKnownJobs ==
    (pc = "fused" /\ FusionReturned) =>
        \A j \in 1..Len(merged.jobs) :
            /\ _passes_filters(merged.jobs[j], parsed_filters)
            /\ merged.jobs[j].job_id
                   \in IdsOf(vector_results) \cup IdsOf(scylla_results)

\* A fusion that returns a job and leaves out a structured row and a vector
\* candidate that fail the filters.
C28_Witness ==
    /\ pc = "fused" /\ FusionReturned
    /\ merged.jobs # <<>>
    /\ \E i \in 1..Len(scylla_results) :
           /\ ~StructuredStepAccepts(scylla_results[i], parsed_filters)
           /\ scylla_results[i].job_id \notin IdsOf(merged.jobs)
    /\ \E i \in 1..Len(vector_results) :
           /\ ~VectorStepAccepts(vector_results[i], scylla_results,
                                 parsed_filters)
           /\ vector_results[i].job_id \notin IdsOf(merged.jobs)


---------------------------------------------------------------------------
(* C29 *)

\* C29: insert_single_job writes to the vector store only after the Scylla
\* insert reported success; it returns True exactly when both the Scylla
\* insert and the vector insert succeeded; and when the Scylla insert does
\* not succeed, no vector insert is attempted.
C29_VectorAfterScyllaSuccess ==
    /\ [][(vector_store' # vector_store \/ vector_success' # vector_success)
              => scylla_success = "True"]_vars
    /\ [](pc = "insert_done" =>
              /\ (insert_returned = "True")
                     <=> (scylla_success = "True" /\ vector_success = "True")
              /\ insert_returned = "True"
                     => /\ new_job.job_id \in jobs_table
                        /\ new_job.job_id \in vector_store
              /\ scylla_success # "True"
                     => (vector_success = Unset /\ vector_store = {}))

\* A call that returned True with the job in both stores.
C29_Witness ==
    /\ pc = "insert_done"
    /\ insert_returned = "True"
    /\ scylla_success = "True"
    /\ vector_success = "True"
    /\ jobs_table = {new_job.job_id}
    /\ vector_store = {new_job.job_id}


---------------------------------------------------------------------------
(* C30 *)

\* C30: under every interleaving of concurrent first calls,
\* get_scylla_repository and get_singleton_vector_repository each construct
\* at most one repository object, and every caller receives that object.
C30_SingletonConstructedOnce ==
    pc = "concurrent" =>
        /\ constructed.scylla <= 1
        /\ constructed.vector <= 1
        /\ \A p, q \in Callers :
               (callers[p].scylla_instance # 0 /\ callers[q].scylla_instance # 0)
               => callers[p].scylla_instance = callers[q].scylla_instance
        /\ \A p, q \in Callers :
               (callers[p].vector_instance # 0 /\ callers[q].vector_instance # 0)
               => callers[p].vector_instance = callers[q].vector_instance

=============================================================================
